---- MODULE Spec2Model ----
(***************************************************************************)
(* A model of the databridge-core orchestration engine:                    *)
(*   core/services/document_service.py  (DocumentService)                  *)
(*   core/database/mongo_database.py    (MongoDatabase)                    *)
(*   core/vector_store/base_vector_store.py (BaseVectorStore interface)    *)
(*   core/models/auth.py                (AuthContext)                      *)
(*   core/api.py                        (wiring and HTTP handlers)         *)
(*                                                                         *)
(* The metadata store (a MongoDB collection), the vector index and the     *)
(* process configuration exist before the service is constructed, so Init  *)
(* draws them from bounded sets.  Every handler is one action; what the    *)
(* adapters answer (I/O errors, search results, scores) is drawn with \E.  *)
(***************************************************************************)
EXTENDS Integers, Sequences, FiniteSets, TLC

(***************************************************************************)
(* Bounds of the model.                                                    *)
(***************************************************************************)
MaxChunks == 2      \* chunks one document holds in the vector index
MaxK == 2           \* largest k a retrieval asks for
MaxCand == 2        \* candidates one vector search answers with
MaxParsed == 2      \* chunks the parser makes of one input
MaxListed == 2      \* document ids one create_cache request lists

Users == {"u1", "u2"}
DocIds == {"d1", "d2"}
Tags == {"a", "b"}
Scores == {1, 2}
CacheNames == {"c1"}

\* Two handler calls can be in progress at a time: coroutines of one event
\* loop, each running from one await to the next.
Calls == {1, 2}

\* No call in progress.
NoTask == [op |-> "none", pc |-> "none"]

VARIABLES
    provider,       \* settings.DATABASE_PROVIDER: "mongodb" | "postgres"
    USE_RERANKING,  \* settings.USE_RERANKING
    collection,     \* the documents collection of the metadata store
    index,          \* the vector index: document id -> number of chunks held
    storage,        \* the blob store: the blobs held, one per (bucket, key)
    caches,         \* the caches collection of the metadata store: descriptors
    active_caches,  \* DocumentService.active_caches: the caches loaded, by name
    tasks,          \* the handler calls in progress on the event loop, by call
    last            \* the last handler call: its inputs, outcome and adapter calls

vars == <<provider, USE_RERANKING, collection, index, storage, caches, active_caches,
         tasks, last>>

(***************************************************************************)
(* core/models/auth.py                                                     *)
(***************************************************************************)
\* The fields the AuthContext model declares.
AuthContextFields == {"user_id"}

\* Every AuthContext value.
AuthContext == [user_id : Users]

\* Reading attribute f of an auth object: a pydantic model raises
\* AttributeError for a field it does not hold.
HasAttr(auth, f) == f \in DOMAIN auth

\* The auth object verify_token means to build from a token and the
\* handlers read: an entity, its id and its permissions.
TokenAuth ==
    [entity_type : {"developer"}, entity_id : Users,
     permissions : {{"read"}, {"read", "write"}}]

\* The identity of the caller an auth object stands for.
CallerOf(auth) == IF HasAttr(auth, "user_id") THEN auth.user_id ELSE auth.entity_id

(***************************************************************************)
(* Results of calls: a value, or an exception that propagates.             *)
(***************************************************************************)
NoExc == "none"

\* A Document record as stored in the collection.  access_control is what
\* ingestion writes: the three lists hold the owner alone.
AccessControlOf(u) == [readers |-> {u}, writers |-> {u}, admins |-> {u}]

ChunkIdsOf(id, n) == [i \in 1..n |-> <<id, i - 1>>]

DocumentRec(id, u, t, n) ==
    [external_id |-> id, owner_id |-> u, access_control |-> AccessControlOf(u),
     metadata |-> [tag |-> t, external_id |-> id], chunk_ids |-> ChunkIdsOf(id, n)]

\* The document with this external_id, as a set of at most one record
\* (external_id carries a unique index).
FindOne(coll, P(_)) == {d \in coll : P(d)}

(***************************************************************************)
(* core/database/mongo_database.py: MongoDatabase.                         *)
(* A driver call either answers or raises PyMongoError (err).              *)
(***************************************************************************)
\* The value a document's metadata holds for key k, "None" when it holds
\* none.
MetaField(d, k) == IF k \in DOMAIN d.metadata THEN d.metadata[k] ELSE "None"

\* The value of one field path of a stored document: a top-level field, or
\* metadata.k.
Field(d, key) ==
    IF key \in DOMAIN d
    THEN d[key]
    ELSE LET ks == {k \in DOMAIN d.metadata : "metadata." \o k = key}
         IN  IF ks = {} THEN "None" ELSE d.metadata[CHOOSE k \in ks : TRUE]

\* A MongoDB query document of equalities: every key must match.
Matches(d, query) == \A key \in DOMAIN query : Field(d, key) = query[key]

\* dict.update: the keys of m replace those of q.
DictUpdate(q, m) ==
    [key \in DOMAIN q \cup DOMAIN m |-> IF key \in DOMAIN m THEN m[key] ELSE q[key]]

\* MongoDatabase._build_access_filter
build_access_filter(auth) == [owner_id |-> auth.user_id]

\* _build_metadata_filter with the keys taken as they come, as paths from
\* the top of the document.
build_unprefixed_filter(filters) == filters

\* _build_metadata_filter: each filter key k becomes an equality on
\* metadata.k (mongo_database.py calls the method and does not define it).
build_metadata_filter(filters) ==
    [key \in {"metadata." \o k : k \in DOMAIN filters} |->
        filters[CHOOSE k \in DOMAIN filters : "metadata." \o k = key]]

\* MongoDatabase.store_document: metadata.external_id is set and the record
\* inserted; PyMongoError (err, or the unique index on external_id) answers
\* False.
Mongo_store_document(coll, document, err) ==
    IF err \/ \E d \in coll : d.external_id = document.external_id
    THEN [val |-> FALSE, coll |-> coll]
    ELSE [val |-> TRUE,
          coll |-> coll \cup
              {[document EXCEPT !.metadata =
                  [key \in DOMAIN document.metadata \cup {"external_id"} |->
                     IF key = "external_id" THEN document.external_id
                     ELSE document.metadata[key]]]}]

\* MongoDatabase.get_document: find_one on external_id and the access
\* filter; PyMongoError is logged and raised again.
Mongo_get_document(coll, document_id, auth, err) ==
    IF err THEN [exc |-> "PyMongoError", val |-> {}]
    ELSE [exc |-> NoExc,
          val |-> FindOne(coll, LAMBDA d : /\ d.external_id = document_id
                                           /\ Matches(d, build_access_filter(auth)))]

\* MongoDatabase.check_access(self, document_id, auth): called with the
\* positional arguments args.  A call with another number of arguments
\* raises TypeError before the body runs; PyMongoError inside answers False.
check_access(coll, args, err) ==
    IF Len(args) # 2 THEN [exc |-> "TypeError", val |-> FALSE]
    ELSE IF err THEN [exc |-> NoExc, val |-> FALSE]
    ELSE LET doc == FindOne(coll, LAMBDA d : d.external_id = args[1])
         IN  IF doc = {} THEN [exc |-> NoExc, val |-> FALSE]
             ELSE [exc |-> NoExc,
                   val |-> \E d \in doc : d.owner_id = args[2].user_id]

\* MongoDatabase.update_document: check_access(document_id, auth, "write"),
\* then find_one_and_update; only PyMongoError is caught (answer False).
Mongo_update_document(coll, document_id, updates, auth, err) ==
    LET access == check_access(coll, <<document_id, auth, "write">>, err)
    IN  IF access.exc # NoExc THEN [exc |-> access.exc, val |-> FALSE, coll |-> coll]
        ELSE IF ~access.val THEN [exc |-> NoExc, val |-> FALSE, coll |-> coll]
        ELSE IF err THEN [exc |-> NoExc, val |-> FALSE, coll |-> coll]
        ELSE LET hit == FindOne(coll, LAMBDA d : d.external_id = document_id)
             IN  [exc |-> NoExc, val |-> hit # {},
                  coll |-> (coll \ hit) \cup
                           {[d EXCEPT !.metadata = updates] : d \in hit}]

\* MongoDatabase.delete_document: check_access(document_id, auth, "admin"),
\* then delete_one; only PyMongoError is caught (answer False).
Mongo_delete_document(coll, document_id, auth, err) ==
    LET access == check_access(coll, <<document_id, auth, "admin">>, err)
    IN  IF access.exc # NoExc THEN [exc |-> access.exc, val |-> FALSE, coll |-> coll]
        ELSE IF ~access.val THEN [exc |-> NoExc, val |-> FALSE, coll |-> coll]
        ELSE IF err THEN [exc |-> NoExc, val |-> FALSE, coll |-> coll]
        ELSE LET hit == FindOne(coll, LAMBDA d : d.external_id = document_id)
             IN  [exc |-> NoExc, val |-> hit # {}, coll |-> coll \ hit]

\* MongoDatabase.find_authorized_and_filtered_documents: the ownership
\* query, updated with the metadata filter when filters is not empty; no
\* exception is caught.
Mongo_find_authorized_and_filtered_documents(coll, auth, filters, err) ==
    LET owner == [owner_id |-> auth.user_id]
        query == IF DOMAIN filters # {}
                 THEN DictUpdate(owner, build_metadata_filter(filters))
                 ELSE owner
    IN  IF err THEN [exc |-> "PyMongoError", val |-> {}]
        ELSE [exc |-> NoExc,
              val |-> {d.external_id : d \in {x \in coll : Matches(x, query)}}]

\* MongoDatabase.get_documents: the documents that match the access filter
\* and the metadata filter; PyMongoError is logged and [] answered.
Mongo_get_documents(coll, auth, filters, err) ==
    IF err THEN [exc |-> NoExc, val |-> {}]
    ELSE [exc |-> NoExc,
          val |-> {d \in coll : /\ Matches(d, build_access_filter(auth))
                                /\ Matches(d, build_metadata_filter(filters))}]

\* MongoDatabase.store_cache_metadata: an upsert of the descriptor under
\* its name; any exception answers False.
Mongo_store_cache_metadata(descriptors, name, metadata, err) ==
    IF err THEN [val |-> FALSE, caches |-> descriptors]
    ELSE [val |-> TRUE,
          caches |-> {c \in descriptors : c.name # name}
                       \cup {[name |-> name, metadata |-> metadata]}]

\* MongoDatabase.get_cache_metadata: the metadata of the descriptor of the
\* name, as a set of at most one; any exception answers None.
Mongo_get_cache_metadata(descriptors, name, err) ==
    IF err THEN [exc |-> NoExc, val |-> {}]
    ELSE [exc |-> NoExc, val |-> {c.metadata : c \in {x \in descriptors : x.name = name}}]

(***************************************************************************)
(* PostgresDatabase (api.py selects it with DATABASE_PROVIDER "postgres"): *)
(* the Metadata Store contract, with the access levels of the document's   *)
(* access-control record.  An I/O error surfaces as a failure.             *)
(***************************************************************************)
Holds(d, auth, level) == auth.user_id \in d.access_control[level]

Pg_store_document(coll, document, err) ==
    IF err \/ \E d \in coll : d.external_id = document.external_id
    THEN [val |-> FALSE, coll |-> coll]
    ELSE [val |-> TRUE, coll |-> coll \cup {document}]

Pg_get_document(coll, document_id, auth, err) ==
    IF err THEN [exc |-> "DatabaseError", val |-> {}]
    ELSE [exc |-> NoExc,
          val |-> FindOne(coll, LAMBDA d : /\ d.external_id = document_id
                                           /\ Holds(d, auth, "readers"))]

Pg_update_document(coll, document_id, updates, auth, err) ==
    LET hit == FindOne(coll, LAMBDA d : /\ d.external_id = document_id
                                        /\ Holds(d, auth, "writers"))
    IN  IF hit = {} \/ err THEN [exc |-> NoExc, val |-> FALSE, coll |-> coll]
        ELSE [exc |-> NoExc, val |-> TRUE,
              coll |-> (coll \ hit) \cup {[d EXCEPT !.metadata = updates] : d \in hit}]

Pg_delete_document(coll, document_id, auth, err) ==
    LET hit == FindOne(coll, LAMBDA d : /\ d.external_id = document_id
                                        /\ Holds(d, auth, "admins"))
    IN  IF hit = {} \/ err THEN [exc |-> NoExc, val |-> FALSE, coll |-> coll]
        ELSE [exc |-> NoExc, val |-> TRUE, coll |-> coll \ hit]

Pg_find_authorized_and_filtered_documents(coll, auth, filters, err) ==
    IF err THEN [exc |-> "DatabaseError", val |-> {}]
    ELSE [exc |-> NoExc,
          val |-> {d.external_id : d \in
                     {x \in coll : /\ Holds(x, auth, "readers")
                                   /\ \A k \in DOMAIN filters :
                                        MetaField(x, k) = filters[k]}}]

Pg_get_documents(coll, auth, filters, err) ==
    IF err THEN [exc |-> "DatabaseError", val |-> {}]
    ELSE [exc |-> NoExc,
          val |-> {x \in coll : /\ Holds(x, auth, "readers")
                                /\ \A k \in DOMAIN filters :
                                     MetaField(x, k) = filters[k]}]

Pg_store_cache_metadata(descriptors, name, metadata, err) ==
    IF err THEN [val |-> FALSE, caches |-> descriptors]
    ELSE [val |-> TRUE,
          caches |-> {c \in descriptors : c.name # name}
                       \cup {[name |-> name, metadata |-> metadata]}]

Pg_get_cache_metadata(descriptors, name, err) ==
    IF err THEN [exc |-> "DatabaseError", val |-> {}]
    ELSE [exc |-> NoExc, val |-> {c.metadata : c \in {x \in descriptors : x.name = name}}]

(***************************************************************************)
(* self.db: the database api.py constructs for DATABASE_PROVIDER.          *)
(***************************************************************************)
db_get_documents(coll, auth, filters, err) ==
    IF provider = "mongodb" THEN Mongo_get_documents(coll, auth, filters, err)
    ELSE Pg_get_documents(coll, auth, filters, err)

db_store_cache_metadata(descriptors, name, metadata, err) ==
    IF provider = "mongodb" THEN Mongo_store_cache_metadata(descriptors, name, metadata, err)
    ELSE Pg_store_cache_metadata(descriptors, name, metadata, err)

db_get_cache_metadata(descriptors, name, err) ==
    IF provider = "mongodb" THEN Mongo_get_cache_metadata(descriptors, name, err)
    ELSE Pg_get_cache_metadata(descriptors, name, err)

db_store_document(coll, document, err) ==
    IF provider = "mongodb" THEN Mongo_store_document(coll, document, err)
    ELSE Pg_store_document(coll, document, err)

db_get_document(coll, document_id, auth, err) ==
    IF provider = "mongodb" THEN Mongo_get_document(coll, document_id, auth, err)
    ELSE Pg_get_document(coll, document_id, auth, err)

db_update_document(coll, document_id, updates, auth, err) ==
    IF provider = "mongodb" THEN Mongo_update_document(coll, document_id, updates, auth, err)
    ELSE Pg_update_document(coll, document_id, updates, auth, err)

db_delete_document(coll, document_id, auth, err) ==
    IF provider = "mongodb" THEN Mongo_delete_document(coll, document_id, auth, err)
    ELSE Pg_delete_document(coll, document_id, auth, err)

db_find_authorized_and_filtered_documents(coll, auth, filters, err) ==
    IF provider = "mongodb"
    THEN Mongo_find_authorized_and_filtered_documents(coll, auth, filters, err)
    ELSE Pg_find_authorized_and_filtered_documents(coll, auth, filters, err)

(***************************************************************************)
(* core/vector_store/base_vector_store.py: the Vector Index adapter.  The  *)
(* interface is abstract; what an implementation does is its contract.     *)
(***************************************************************************)
\* The chunks the index holds for the documents ids.
ChunksOf(idx, ids) == UNION {{<<d, i>> : i \in 0..(idx[d] - 1)} : d \in ids}

\* count_number_of_chunks(external_id)
count_number_of_chunks(idx, external_id) == idx[external_id]

\* delete_chunks(external_id): the adapter deletes n of the document's
\* chunks and answers n, or raises (err) having deleted n.  The interface
\* declares the answer a bool: an adapter that follows it (asBool) answers
\* True when it deleted every chunk and False otherwise, which Python
\* compares with a count as 1 and 0.
delete_chunks(idx, external_id, n, err, asBool) ==
    [exc |-> IF err THEN "VectorStoreError" ELSE NoExc,
     val |-> IF ~asBool THEN n ELSE IF n = idx[external_id] THEN 1 ELSE 0,
     idx |-> [idx EXCEPT ![external_id] = idx[external_id] - n]]

\* store_embeddings(chunks): (True, ids) with every chunk stored under its
\* document, or (False, []) with none.
store_embeddings(idx, chunk_objects, ok) ==
    IF ok
    THEN [success |-> TRUE,
          result |-> [i \in 1..Len(chunk_objects) |->
                        <<chunk_objects[i].document_id, chunk_objects[i].chunk_number>>],
          idx |-> [d \in DOMAIN idx |->
                     idx[d] + Cardinality({i \in 1..Len(chunk_objects) :
                                             chunk_objects[i].document_id = d})]]
    ELSE [success |-> FALSE, result |-> <<>>, idx |-> idx]

(***************************************************************************)
(* The record of a handler call.                                           *)
(***************************************************************************)
\* The adapter answers of a call that is not an ingestion.
NoEnv ==
    [external_id |-> "none", nChunks |-> 0, nEmbeddings |-> 0, fault |-> "none",
     rules |-> "none", rule_metadata |-> <<>>, nRechunked |-> 0]

NoCall ==
    [op |-> "none", user |-> "none", id |-> "none", outcome |-> "none",
     result |-> "None", calls |-> {}, count |-> -1, visible |-> FALSE,
     document_deleted |-> "None", deleted_count |-> -1, doc_ids |-> {},
     found |-> "none", k |-> 0,
     use_reranking |-> "None", results |-> <<>>,
     uploads |-> 0, env |-> NoEnv, filters |-> <<>>, candidates |-> <<>>,
     documents |-> <<>>, listed |-> <<>>, handed |-> <<>>, location |-> <<>>,
     metadata |-> {}, content |-> "None", stored |-> <<>>]

(***************************************************************************)
(* core/services/document_service.py: DocumentService                      *)
(***************************************************************************)
\* What a call of delete_document_and_chunks has done so far: nothing but
\* the lookup, with the answer False.
DeleteBase(coll, idx) ==
    [outcome |-> "return", result |-> "False", coll |-> coll, idx |-> idx,
     calls |-> {"get_document"}, count |-> -1, visible |-> FALSE,
     document_deleted |-> "None", deleted_count |-> -1]

\* delete_record_then_chunks with the two deletions in the other order: the
\* chunks go first, the metadata record after them.
delete_chunks_then_record(coll, idx, external_id, auth, env, count) ==
    LET chunks == delete_chunks(idx, external_id, env.nDeleted,
                                env.fault = "delete_chunks", env.asBool)
        deleted == db_delete_document(coll, external_id, auth,
                                      env.fault = "delete_document")
        base == [DeleteBase(coll, chunks.idx) EXCEPT
                   !.calls = {"get_document", "count_number_of_chunks",
                              "delete_chunks", "delete_document"},
                   !.count = count, !.visible = TRUE]
    IN  IF chunks.exc # NoExc
        THEN [base EXCEPT !.outcome = chunks.exc, !.result = "None",
                          !.calls = @ \ {"delete_document"}]
        ELSE IF deleted.exc # NoExc
        THEN [base EXCEPT !.outcome = deleted.exc, !.result = "None",
                          !.document_deleted = "raised"]
        ELSE IF ~deleted.val
        THEN [base EXCEPT !.document_deleted = "False"]
        ELSE [base EXCEPT !.coll = deleted.coll, !.document_deleted = "True",
                          !.deleted_count = chunks.val,
                          !.result = IF chunks.val = count THEN "True" ELSE "False"]

\* delete_record_then_chunks without "if not document_deleted: return
\* False": the chunks are deleted whatever delete_document answered.
delete_chunks_regardless(coll, idx, external_id, auth, env, count) ==
    LET deleted == db_delete_document(coll, external_id, auth,
                                      env.fault = "delete_document")
        chunks == delete_chunks(idx, external_id, env.nDeleted,
                                env.fault = "delete_chunks", env.asBool)
        base == [DeleteBase(coll, idx) EXCEPT
                   !.calls = {"get_document", "count_number_of_chunks",
                              "delete_document"},
                   !.count = count, !.visible = TRUE]
    IN  IF deleted.exc # NoExc
        THEN [base EXCEPT !.outcome = deleted.exc, !.result = "None",
                          !.document_deleted = "raised"]
        ELSE [base EXCEPT
                !.calls = @ \cup {"delete_chunks"},
                !.document_deleted = IF deleted.val THEN "True" ELSE "False",
                !.coll = deleted.coll, !.idx = chunks.idx,
                !.deleted_count = IF chunks.exc # NoExc THEN -1 ELSE chunks.val,
                !.outcome = IF chunks.exc # NoExc THEN chunks.exc ELSE "return",
                !.result = IF chunks.exc # NoExc THEN "None"
                           ELSE IF chunks.val = count THEN "True" ELSE "False"]

\* delete_document_and_chunks, from "Delete document from the database" on:
\* delete the metadata record, stop if that fails, delete the chunks and
\* compare their number with count.
delete_record_then_chunks(coll, idx, external_id, auth, env, count) ==
    LET deleted == db_delete_document(coll, external_id, auth,
                                      env.fault = "delete_document")
        chunks == delete_chunks(idx, external_id, env.nDeleted,
                                env.fault = "delete_chunks", env.asBool)
        base == [DeleteBase(coll, idx) EXCEPT
                   !.calls = {"get_document", "count_number_of_chunks",
                              "delete_document"},
                   !.count = count, !.visible = TRUE]
        both == [base EXCEPT
                   !.calls = @ \cup {"delete_chunks"}, !.document_deleted = "True",
                   !.coll = deleted.coll, !.idx = chunks.idx]
    IN  IF deleted.exc # NoExc
        THEN [base EXCEPT !.outcome = deleted.exc, !.result = "None",
                          !.document_deleted = "raised"]
        ELSE IF ~deleted.val
        THEN [base EXCEPT !.document_deleted = "False"]
        ELSE IF chunks.exc # NoExc
        THEN [both EXCEPT !.outcome = chunks.exc, !.result = "None"]
        ELSE IF chunks.val # count
        THEN [both EXCEPT !.deleted_count = chunks.val]
        ELSE [both EXCEPT !.deleted_count = chunks.val, !.result = "True"]

\* delete_document_and_chunks without the "if count == 0" check.
delete_without_count_check(coll, idx, external_id, auth, env) ==
    LET document == db_get_document(coll, external_id, auth,
                                    env.fault = "get_document")
    IN  IF document.exc # NoExc
        THEN [DeleteBase(coll, idx) EXCEPT !.outcome = document.exc, !.result = "None"]
        ELSE IF document.val = {}
        THEN DeleteBase(coll, idx)
        ELSE delete_record_then_chunks(coll, idx, external_id, auth, env,
                                       count_number_of_chunks(idx, external_id))

\* delete_document_and_chunks(external_id, auth).  env holds what the
\* adapters answer: fault names the adapter call that meets an I/O error
\* (a call after a failed one is not reached), nDeleted is what
\* delete_chunks deletes.  The value is the handler's outcome, the two
\* stores after it and the adapter calls it made.
delete_document_and_chunks(coll, idx, external_id, auth, env) ==
    LET document == db_get_document(coll, external_id, auth,
                                    env.fault = "get_document")
        count == count_number_of_chunks(idx, external_id)
    IN  IF document.exc # NoExc
        THEN [DeleteBase(coll, idx) EXCEPT !.outcome = document.exc, !.result = "None"]
        ELSE IF document.val = {}
        THEN DeleteBase(coll, idx)
        ELSE IF count = 0
        THEN [DeleteBase(coll, idx) EXCEPT
                !.calls = {"get_document", "count_number_of_chunks"},
                !.count = count, !.visible = TRUE]
        ELSE delete_record_then_chunks(coll, idx, external_id, auth, env, count)

\* api.py delete_document: the HTTP status of DELETE /documents/{id} for a
\* result of delete_document_and_chunks.  False becomes 404 "Document not
\* found"; an exception is raised again.
api_delete_document(r) ==
    IF r.outcome # "return" THEN [status |-> 500, detail |-> r.outcome]
    ELSE IF r.result = "True" THEN [status |-> 200, detail |-> "true"]
    ELSE [status |-> 404, detail |-> "Document not found"]

(***************************************************************************)
(* Retrieval: DocumentService.retrieve_chunks and its helpers.             *)
(***************************************************************************)
\* list.sort(key=score, reverse=True): stable, descending.
RECURSIVE InsertDesc(_, _)
InsertDesc(sorted, c) ==
    IF sorted = <<>> THEN <<c>>
    ELSE IF Head(sorted).score >= c.score
         THEN <<Head(sorted)>> \o InsertDesc(Tail(sorted), c)
         ELSE <<c>> \o sorted

RECURSIVE SortDesc(_)
SortDesc(chunks) ==
    IF chunks = <<>> THEN <<>>
    ELSE InsertDesc(SortDesc(SubSeq(chunks, 1, Len(chunks) - 1)), chunks[Len(chunks)])

\* chunks[:k]
Take(chunks, k) == SubSeq(chunks, 1, IF Len(chunks) < k THEN Len(chunks) ELSE k)

\* The over-fetch factor of a reranked search.
RerankFactor == 10

\* The rankings an index may compute for a query over the documents ids: at
\* most MaxCand distinct chunks it holds of them, in any order.
Rankings(idx, ids) ==
    LET pool == ChunksOf(idx, ids)
    IN  UNION {{c \in [1..m -> pool] : \A i, j \in 1..m : i # j => c[i] # c[j]} :
                 m \in 0..MaxCand}

\* BaseVectorStore.query_similar(query_embedding, k, doc_ids): the first k
\* chunks of the ranking that belong to the documents doc_ids, each with
\* its similarity score.
query_similar(k, doc_ids, ranking, score) ==
    LET scored == [i \in 1..Len(ranking) |->
                     [document_id |-> ranking[i][1], chunk_number |-> ranking[i][2],
                      score |-> score[i]]]
    IN  Take(SelectSeq(scored, LAMBDA c : c.document_id \in doc_ids), k)

\* BaseReranker.rerank(query, chunks): the same chunks with the scores rscore.
rerank(chunks, rscore) ==
    [i \in 1..Len(chunks) |-> [chunks[i] EXCEPT !.score = rscore[i]]]

\* _create_chunk_results with "if not doc: continue" turned into a raise:
\* a chunk whose document is not found ends the call.
chunk_results_or_raise(coll, auth, chunks, getErr) ==
    LET found == SelectSeq(chunks,
                   LAMBDA c : db_get_document(coll, c.document_id, auth, FALSE).val # {})
    IN  IF chunks # <<>> /\ getErr
        THEN [exc |-> db_get_document(coll, chunks[1].document_id, auth, TRUE).exc,
              val |-> <<>>]
        ELSE IF found # chunks
        THEN [exc |-> "ValueError", val |-> <<>>]
        ELSE [exc |-> NoExc, val |-> found]

\* DocumentService._create_chunk_results: a chunk whose document
\* get_document does not find is skipped; an error of get_document
\* propagates.
create_chunk_results(coll, auth, chunks, getErr) ==
    IF chunks # <<>> /\ getErr
    THEN [exc |-> db_get_document(coll, chunks[1].document_id, auth, TRUE).exc,
          val |-> <<>>]
    ELSE [exc |-> NoExc,
          val |-> SelectSeq(chunks,
                    LAMBDA c : db_get_document(coll, c.document_id, auth, FALSE).val # {})]

\* self.reranker: api.py constructs one exactly when USE_RERANKING is set.
reranker_configured == USE_RERANKING

\* should_rerank = use_reranking if use_reranking is not None else
\* settings.USE_RERANKING
ShouldRerank(use_reranking) ==
    IF use_reranking # "None" THEN use_reranking = "True" ELSE USE_RERANKING

\* What a retrieve_chunks that has embedded the query answers so far.
RetrieveBase ==
    [outcome |-> "return", results |-> <<>>, doc_ids |-> {}, found |-> "none",
     calls |-> {"embed_for_query"}, reranked |-> <<>>]

\* search_and_rank with the search over every document of the index
\* instead of doc_ids.
search_every_document(coll, auth, doc_ids, k, should_rerank, env) ==
    LET chunks == query_similar(IF should_rerank THEN RerankFactor * k ELSE k,
                                DocIds, env.ranking, env.score)
        reranks == chunks # <<>> /\ should_rerank /\ reranker_configured
        top == IF reranks THEN Take(SortDesc(rerank(chunks, env.rscore)), k)
               ELSE chunks
        results == create_chunk_results(coll, auth, top, env.fault = "get_document")
    IN  [RetrieveBase EXCEPT
           !.outcome = IF results.exc # NoExc THEN results.exc ELSE "return",
           !.results = results.val,
           !.doc_ids = doc_ids,
           !.found = IF doc_ids = {} THEN "empty" ELSE "some",
           !.calls = {"embed_for_query", "find_authorized", "query_similar"}
                     \cup (IF reranks THEN {"rerank"} ELSE {})
                     \cup (IF top # <<>> THEN {"get_document"} ELSE {})]

\* search_and_rank with the search over every document of the index and
\* the candidates answered as they are, without the lookup of their
\* documents.
search_without_allow_list(coll, auth, doc_ids, k, should_rerank, env) ==
    LET chunks == query_similar(IF should_rerank THEN RerankFactor * k ELSE k,
                                DocIds, env.ranking, env.score)
        reranks == chunks # <<>> /\ should_rerank /\ reranker_configured
        top == IF reranks THEN Take(SortDesc(rerank(chunks, env.rscore)), k)
               ELSE chunks
    IN  [RetrieveBase EXCEPT
           !.results = top,
           !.doc_ids = doc_ids,
           !.found = IF doc_ids = {} THEN "empty" ELSE "some",
           !.calls = {"embed_for_query", "find_authorized", "query_similar"}
                     \cup (IF reranks THEN {"rerank"} ELSE {})]

\* search_and_rank without "chunks.sort(key=lambda x: x.score,
\* reverse=True)": the reranked chunks are cut to k in the order the
\* reranker answered them.
search_and_cut_unsorted(coll, auth, doc_ids, k, should_rerank, env) ==
    LET chunks == query_similar(IF should_rerank THEN RerankFactor * k ELSE k,
                                doc_ids, env.ranking, env.score)
        reranks == chunks # <<>> /\ should_rerank /\ reranker_configured
        top == IF reranks THEN Take(rerank(chunks, env.rscore), k)
               ELSE chunks
        results == create_chunk_results(coll, auth, top, env.fault = "get_document")
    IN  [RetrieveBase EXCEPT
           !.outcome = IF results.exc # NoExc THEN results.exc ELSE "return",
           !.results = results.val,
           !.reranked = IF reranks THEN rerank(chunks, env.rscore) ELSE <<>>,
           !.doc_ids = doc_ids,
           !.found = IF doc_ids = {} THEN "empty" ELSE "some",
           !.calls = {"embed_for_query", "find_authorized", "query_similar"}
                     \cup (IF reranks THEN {"rerank"} ELSE {})
                     \cup (IF top # <<>> THEN {"get_document"} ELSE {})]

\* retrieve_chunks from "Search chunks with vector similarity" on: the
\* search restricted to doc_ids (10 * k candidates when reranking is asked
\* for), the rerank, sort and cut to k when there is a reranker, and the
\* chunk results.
search_and_rank(coll, auth, doc_ids, k, should_rerank, env) ==
    LET chunks == query_similar(IF should_rerank THEN RerankFactor * k ELSE k,
                                doc_ids, env.ranking, env.score)
        reranks == chunks # <<>> /\ should_rerank /\ reranker_configured
        top == IF reranks THEN Take(SortDesc(rerank(chunks, env.rscore)), k)
               ELSE chunks
        results == create_chunk_results(coll, auth, top, env.fault = "get_document")
    IN  [RetrieveBase EXCEPT
           !.outcome = IF results.exc # NoExc THEN results.exc ELSE "return",
           !.results = results.val,
           !.reranked = IF reranks THEN rerank(chunks, env.rscore) ELSE <<>>,
           !.doc_ids = doc_ids,
           !.found = IF doc_ids = {} THEN "empty" ELSE "some",
           !.calls = {"embed_for_query", "find_authorized", "query_similar"}
                     \cup (IF reranks THEN {"rerank"} ELSE {})
                     \cup (IF top # <<>> THEN {"get_document"} ELSE {})]

\* retrieve_chunks without "if not doc_ids: return []".
retrieve_without_early_return(coll, idx, auth, filters, k, use_reranking, env) ==
    LET found == db_find_authorized_and_filtered_documents(
                     coll, auth, filters, env.fault = "find_authorized")
    IN  IF env.fault = "embed_for_query"
        THEN [RetrieveBase EXCEPT !.outcome = "EmbeddingError"]
        ELSE IF found.exc # NoExc
        THEN [RetrieveBase EXCEPT !.outcome = found.exc,
                                  !.calls = {"embed_for_query", "find_authorized"}]
        ELSE search_and_rank(coll, auth, found.val, k, ShouldRerank(use_reranking), env)

\* DocumentService.retrieve_chunks(query, auth, filters, k, min_score,
\* use_reranking).  env: fault names the adapter call that raises (a call
\* after it is not reached), ranking and score are the vector index's
\* answer, rscore the reranker's scores.
retrieve_chunks(coll, idx, auth, filters, k, use_reranking, env) ==
    LET found == db_find_authorized_and_filtered_documents(
                     coll, auth, filters, env.fault = "find_authorized")
    IN  IF env.fault = "embed_for_query"
        THEN [RetrieveBase EXCEPT !.outcome = "EmbeddingError"]
        ELSE IF found.exc # NoExc
        THEN [RetrieveBase EXCEPT !.outcome = found.exc,
                                  !.calls = {"embed_for_query", "find_authorized"}]
        ELSE IF found.val = {}
        THEN [RetrieveBase EXCEPT !.found = "empty",
                                  !.calls = {"embed_for_query", "find_authorized"}]
        ELSE search_and_rank(coll, auth, found.val, k, ShouldRerank(use_reranking), env)

\* The first loop of _create_document_results over the chunks seen so far:
\* the chunk kept for each document, in the order the documents were first
\* seen.  A chunk replaces the one kept for its document when its score is
\* greater.
RECURSIVE doc_chunks(_)
doc_chunks(chunks) ==
    IF chunks = <<>> THEN <<>>
    ELSE LET before == doc_chunks(SubSeq(chunks, 1, Len(chunks) - 1))
             chunk == chunks[Len(chunks)]
             at == {i \in 1..Len(before) : before[i].document_id = chunk.document_id}
         IN  IF at = {} THEN Append(before, chunk)
             ELSE [i \in 1..Len(before) |->
                     IF i \in at /\ chunk.score > before[i].score THEN chunk
                     ELSE before[i]]

\* doc_chunks without the comparison of scores: the first chunk seen of a
\* document is kept.
RECURSIVE first_chunks(_)
first_chunks(chunks) ==
    IF chunks = <<>> THEN <<>>
    ELSE LET before == first_chunks(SubSeq(chunks, 1, Len(chunks) - 1))
             chunk == chunks[Len(chunks)]
         IN  IF \E i \in 1..Len(before) : before[i].document_id = chunk.document_id
             THEN before
             ELSE Append(before, chunk)

\* _create_document_results with first_chunks for doc_chunks.
document_results_of_first_chunks(coll, auth, chunks, getErr) ==
    LET kept == first_chunks(chunks)
        found == SelectSeq(kept,
                   LAMBDA c : db_get_document(coll, c.document_id, auth, FALSE).val # {})
    IN  IF kept # <<>> /\ getErr
        THEN [exc |-> db_get_document(coll, kept[1].document_id, auth, TRUE).exc,
              val |-> <<>>]
        ELSE [exc |-> NoExc,
              val |-> [i \in 1..Len(found) |->
                         [document_id |-> found[i].document_id,
                          score |-> found[i].score]]]

\* DocumentService._create_document_results, as the list retrieve_docs
\* makes of its values: one result per document kept by doc_chunks whose
\* record get_document finds, with the score of the chunk kept; an error of
\* get_document propagates.
create_document_results(coll, auth, chunks, getErr) ==
    LET kept == doc_chunks(chunks)
        found == SelectSeq(kept,
                   LAMBDA c : db_get_document(coll, c.document_id, auth, FALSE).val # {})
    IN  IF kept # <<>> /\ getErr
        THEN [exc |-> db_get_document(coll, kept[1].document_id, auth, TRUE).exc,
              val |-> <<>>]
        ELSE [exc |-> NoExc,
              val |-> [i \in 1..Len(found) |->
                         [document_id |-> found[i].document_id,
                          score |-> found[i].score]]]

\* DocumentService.retrieve_docs(query, auth, filters, k, min_score,
\* use_reranking): the chunks of retrieve_chunks, then the document
\* results made of them.  env.fault "get_document_results" is an error of
\* the lookups of _create_document_results.
retrieve_docs(coll, idx, auth, filters, k, use_reranking, env) ==
    LET chunks == retrieve_chunks(coll, idx, auth, filters, k, use_reranking, env)
        docs == create_document_results(coll, auth, chunks.results,
                                        env.fault = "get_document_results")
    IN  IF chunks.outcome # "return"
        THEN [outcome |-> chunks.outcome, chunks |-> <<>>, documents |-> <<>>,
              calls |-> chunks.calls]
        ELSE [outcome |-> IF docs.exc # NoExc THEN docs.exc ELSE "return",
              chunks |-> chunks.results, documents |-> docs.val,
              calls |-> chunks.calls
                          \cup (IF chunks.results # <<>> THEN {"get_document"} ELSE {})]

(***************************************************************************)
(* Ingestion: DocumentService.ingest_text, ingest_file and their helpers.  *)
(***************************************************************************)
\* Document(...): a record with a newly generated external_id and no chunk
\* ids yet.
NewDocument(external_id, owner, metadata) ==
    [external_id |-> external_id, owner |-> owner,
     access_control |-> AccessControlOf(owner.id), metadata |-> metadata,
     chunk_ids |-> <<>>]

\* _create_chunk_objects: one chunk object per pair of zip(embeddings,
\* chunks), numbered from 0.
create_chunk_objects(doc_id, chunks, embeddings) ==
    [i \in 1..(IF Len(embeddings) < Len(chunks) THEN Len(embeddings) ELSE Len(chunks)) |->
        [document_id |-> doc_id, chunk_number |-> i - 1, content |-> chunks[i],
         embedding |-> embeddings[i]]]

\* _store_chunks_and_doc without "doc.chunk_ids = result": the document is
\* stored with the chunk ids it had.
store_doc_without_chunk_ids(coll, idx, chunk_objects, doc, fault) ==
    LET stored == store_embeddings(idx, chunk_objects, fault # "store_embeddings")
        saved == db_store_document(coll, doc, fault = "store_document")
    IN  IF ~stored.success \/ ~saved.val
        THEN [outcome |-> "Exception", result |-> <<>>, doc |-> doc, coll |-> coll,
              idx |-> stored.idx, calls |-> {"store_embeddings"}]
        ELSE [outcome |-> "return", result |-> stored.result, doc |-> doc,
              coll |-> saved.coll, idx |-> stored.idx,
              calls |-> {"store_embeddings", "store_document"}]

\* _store_chunks_and_doc without "if not await self.db.store_document(doc):
\* raise": the answer of store_document is not looked at.
store_doc_unchecked(coll, idx, chunk_objects, doc, fault) ==
    LET stored == store_embeddings(idx, chunk_objects, fault # "store_embeddings")
        withIds == [doc EXCEPT !.chunk_ids = stored.result]
        saved == db_store_document(coll, withIds, fault = "store_document")
    IN  IF ~stored.success
        THEN [outcome |-> "Exception", result |-> <<>>, doc |-> doc, coll |-> coll,
              idx |-> stored.idx, calls |-> {"store_embeddings"}]
        ELSE [outcome |-> "return", result |-> stored.result, doc |-> withIds,
              coll |-> saved.coll, idx |-> stored.idx,
              calls |-> {"store_embeddings", "store_document"}]

\* _store_chunks_and_doc with the two writes in the other order: the
\* document goes to the database first, then the chunks to the vector store.
store_doc_then_chunks(coll, idx, chunk_objects, doc, fault) ==
    LET saved == db_store_document(coll, doc, fault = "store_document")
        stored == store_embeddings(idx, chunk_objects, fault # "store_embeddings")
    IN  IF ~saved.val
        THEN [outcome |-> "Exception", result |-> <<>>, doc |-> doc, coll |-> coll,
              idx |-> idx, calls |-> {"store_document"}]
        ELSE IF ~stored.success
        THEN [outcome |-> "Exception", result |-> <<>>, doc |-> doc,
              coll |-> saved.coll, idx |-> stored.idx,
              calls |-> {"store_embeddings", "store_document"}]
        ELSE [outcome |-> "return", result |-> stored.result,
              doc |-> [doc EXCEPT !.chunk_ids = stored.result],
              coll |-> saved.coll, idx |-> stored.idx,
              calls |-> {"store_embeddings", "store_document"}]

\* _store_chunks_and_doc(chunk_objects, doc): the chunks go to the vector
\* store, doc.chunk_ids becomes the ids it answers, the document goes to
\* the database.  fault names the adapter call that fails.
store_chunks_and_doc(coll, idx, chunk_objects, doc, fault) ==
    LET stored == store_embeddings(idx, chunk_objects, fault # "store_embeddings")
        withIds == [doc EXCEPT !.chunk_ids = stored.result]
        saved == db_store_document(coll, withIds, fault = "store_document")
    IN  IF ~stored.success
        THEN [outcome |-> "Exception", result |-> <<>>, doc |-> doc, coll |-> coll,
              idx |-> stored.idx, calls |-> {"store_embeddings"}]
        ELSE IF ~saved.val
        THEN [outcome |-> "Exception", result |-> <<>>, doc |-> withIds, coll |-> coll,
              idx |-> stored.idx, calls |-> {"store_embeddings", "store_document"}]
        ELSE [outcome |-> "return", result |-> stored.result, doc |-> withIds,
              coll |-> saved.coll, idx |-> stored.idx,
              calls |-> {"store_embeddings", "store_document"}]

\* An ingestion that stops with the exception exc before any adapter call.
IngestRaises(coll, idx, exc, calls) ==
    [outcome |-> exc, doc |-> {}, coll |-> coll, idx |-> idx, calls |-> calls,
     content |-> "None", chunk_objects |-> <<>>]

\* The n chunks the parser makes of a text (parse_file of the file whose
\* chunks join to the text, split_text of the text): each is a part of
\* that text.
Chunks(text, n) == [i \in 1..n |-> [text |-> text, part |-> i]]

\* ingest_text / ingest_file from embed_for_ingestion on: embed the chunks,
\* build the chunk objects, store them and the document.  content is set
\* by the caller to what doc.system_metadata["content"] holds;
\* chunk_objects are the chunk objects handed to the vector store.
embed_and_store(coll, idx, doc, chunks, env, calls) ==
    LET embeddings == [i \in 1..env.nEmbeddings |-> i]
        chunk_objects == create_chunk_objects(doc.external_id, chunks, embeddings)
        r == store_chunks_and_doc(coll, idx, chunk_objects, doc, env.fault)
    IN  IF env.fault = "embed_for_ingestion"
        THEN IngestRaises(coll, idx, "EmbeddingError", calls \cup {"embed_for_ingestion"})
        ELSE [outcome |-> r.outcome,
              doc |-> IF r.outcome = "return" THEN {r.doc} ELSE {},
              coll |-> r.coll, idx |-> r.idx,
              calls |-> calls \cup {"embed_for_ingestion"} \cup r.calls,
              content |-> "None", chunk_objects |-> chunk_objects]

\* BaseStorage.upload_from_base64(content, key, content_type, bucket): the
\* bytes are held under (bucket, key), replacing what was there, and
\* (bucket, key) is answered; a failed upload holds nothing.
upload_from_base64(blobs, bytes, key, bucket, err) ==
    IF err
    THEN [exc |-> "StorageError", val |-> <<>>, blobs |-> blobs]
    ELSE [exc |-> NoExc, val |-> <<bucket, key>>,
          blobs |-> {b \in blobs : <<b.bucket, b.key>> # <<bucket, key>>}
                      \cup {[bucket |-> bucket, key |-> key, bytes |-> bytes]}]

\* The bucket an upload without a bucket argument goes to.
DefaultBucket == "storage"

\* The bytes of an uploaded file.
FileBytes == {"file"}

\* rules_processor.process_rules(content, rules) for env: the metadata the
\* rules extract and the text they answer.  Without rules the processor is
\* not called.
HasRules(env) == env.rules # "none"

\* The modified_text process_rules answers: another text when the rules
\* rewrite the content, the empty text when they rewrite it to nothing,
\* None when they leave it alone.
modified_text(env) ==
    CASE env.rules = "rewrite" -> "modified"
      [] env.rules = "erase" -> ""
      [] OTHER -> "None"

\* "if modified_text": the text the rules answer is neither None nor empty.
Rewrites(env) == modified_text(env) \notin {"None", ""}

\* metadata.update(rule_metadata): the metadata of the document after the
\* rules.
merge_rule_metadata(metadata, rule_metadata) == DictUpdate(metadata, rule_metadata)

\* "if not chunks" left out: no chunk list counts as empty.
chunks_never_missing(n) == FALSE

\* "if not chunks": the parser or the splitter made n chunks, none.
no_chunks(n) == n = 0

\* ingest_text(content, metadata, auth, rules).  env: external_id is the id
\* Document() generates, rules what the rules do, rule_metadata what they
\* extract, nChunks what split_text makes of the content, nEmbeddings what
\* the embedding model answers, fault the adapter call that fails.
\* metadata is Optional: {} for None, {m} for the dictionary m.
ingest_text(coll, idx, metadata, auth, env) ==
    IF ~HasAttr(auth, "permissions")
    THEN IngestRaises(coll, idx, "AttributeError", {})
    ELSE IF "write" \notin auth.permissions
    THEN IngestRaises(coll, idx, "PermissionError", {})
    ELSE IF ~HasAttr(auth, "entity_type") \/ ~HasAttr(auth, "entity_id")
    THEN IngestRaises(coll, idx, "AttributeError", {})
    ELSE IF HasRules(env) /\ env.fault = "process_rules"
    THEN IngestRaises(coll, idx, "RuleError", {"process_rules"})
    ELSE IF HasRules(env) /\ metadata = {}
    THEN IngestRaises(coll, idx, "AttributeError", {"process_rules"})
    ELSE LET ruled == IF HasRules(env) THEN {"process_rules"} ELSE {}
             given == IF metadata = {} THEN <<>> ELSE CHOOSE m \in metadata : TRUE
             merged == IF HasRules(env) THEN merge_rule_metadata(given, env.rule_metadata)
                       ELSE given
             content == IF Rewrites(env) THEN modified_text(env) ELSE "content"
             chunks == Chunks(content, env.nChunks)
         IN  IF no_chunks(Len(chunks))
             THEN IngestRaises(coll, idx, "ValueError", ruled \cup {"split_text"})
             ELSE [embed_and_store(coll, idx,
                      NewDocument(env.external_id,
                                  [type |-> auth.entity_type, id |-> auth.entity_id],
                                  merged),
                      chunks, env, ruled \cup {"split_text"})
                   EXCEPT !.content = content]

\* What ingest_file did: r of the stores it shares with ingest_text, the
\* blob store after it and the number of uploads it attempted.
FileResult(r, blobs, uploads) ==
    [outcome |-> r.outcome, doc |-> r.doc, coll |-> r.coll, idx |-> r.idx,
     calls |-> r.calls, blobs |-> blobs, uploads |-> uploads,
     content |-> r.content, chunk_objects |-> r.chunk_objects]

\* The number of chunks an ingestion goes on with: those of the text the
\* rules rewrote, or those first made.
FinalChunks(env) == IF Rewrites(env) THEN env.nRechunked ELSE env.nChunks

\* upload_then_store with a failed upload passed over: the ingestion goes
\* on without the original.
upload_failure_ignored(coll, idx, blobs, doc, chunks, env, calls) ==
    LET upload == upload_from_base64(blobs, FileBytes, doc.external_id, DefaultBucket,
                                     env.fault = "upload_from_base64")
    IN  FileResult(embed_and_store(coll, idx, doc, chunks, env,
                                   calls \cup {"upload_from_base64"}),
                   upload.blobs, 1)

\* ingest_file from "Store the original file" on: the original goes to the
\* blob store, then the chunks are embedded and stored with the document.
upload_then_store(coll, idx, blobs, doc, chunks, env, calls) ==
    LET upload == upload_from_base64(blobs, FileBytes, doc.external_id, DefaultBucket,
                                     env.fault = "upload_from_base64")
    IN  IF upload.exc # NoExc
        THEN FileResult(IngestRaises(coll, idx, upload.exc,
                                     calls \cup {"upload_from_base64"}),
                        upload.blobs, 1)
        ELSE FileResult(embed_and_store(coll, idx, doc, chunks, env,
                                        calls \cup {"upload_from_base64"}),
                        upload.blobs, 1)

\* ingest_file(file, metadata, auth, rules): the file is parsed, the rules
\* are applied to the joined chunks and a rewritten text is split again
\* (env.nRechunked chunks), the document is made, the original uploaded to
\* the blob store, and the chunks embedded and stored.
ingest_file(coll, idx, blobs, metadata, auth, env) ==
    IF ~HasAttr(auth, "permissions")
    THEN FileResult(IngestRaises(coll, idx, "AttributeError", {}), blobs, 0)
    ELSE IF "write" \notin auth.permissions
    THEN FileResult(IngestRaises(coll, idx, "PermissionError", {}), blobs, 0)
    ELSE IF env.fault = "parse_file"
    THEN FileResult(IngestRaises(coll, idx, "ParserError", {"parse_file"}), blobs, 0)
    ELSE IF no_chunks(Len(Chunks("content", env.nChunks)))
    THEN FileResult(IngestRaises(coll, idx, "ValueError", {"parse_file"}), blobs, 0)
    ELSE IF HasRules(env) /\ env.fault = "process_rules"
    THEN FileResult(IngestRaises(coll, idx, "RuleError",
                                 {"parse_file", "process_rules"}), blobs, 0)
    ELSE LET ruled == {"parse_file"}
                        \cup (IF HasRules(env) THEN {"process_rules"} ELSE {})
                        \cup (IF Rewrites(env) THEN {"split_text"} ELSE {})
             merged == IF HasRules(env)
                       THEN merge_rule_metadata(metadata, env.rule_metadata)
                       ELSE metadata
             content == IF Rewrites(env) THEN modified_text(env) ELSE "content"
             chunks == IF Rewrites(env) THEN Chunks(content, env.nRechunked)
                       ELSE Chunks("content", env.nChunks)
         IN  IF Rewrites(env) /\ no_chunks(Len(chunks))
             THEN FileResult(IngestRaises(coll, idx, "ValueError", ruled), blobs, 0)
             ELSE IF ~HasAttr(auth, "entity_type") \/ ~HasAttr(auth, "entity_id")
             THEN FileResult(IngestRaises(coll, idx, "AttributeError", ruled), blobs, 0)
             ELSE [upload_then_store(coll, idx, blobs,
                      NewDocument(env.external_id,
                                  [type |-> auth.entity_type, id |-> auth.entity_id],
                                  merged),
                      chunks, env, ruled)
                   EXCEPT !.content = content]

(***************************************************************************)
(* Caches: DocumentService.create_cache, load_cache and the create_cache   *)
(* endpoint of api.py.                                                     *)
(***************************************************************************)
\* BaseStorage.download_file(bucket, key): the bytes held under (bucket,
\* key); a key that holds nothing, or an I/O error, raises.
download_file(blobs, bucket, key, err) ==
    LET held == {b \in blobs : b.bucket = bucket /\ b.key = key}
    IN  IF err \/ held = {}
        THEN [exc |-> "StorageError", val |-> {}]
        ELSE [exc |-> NoExc, val |-> (CHOOSE b \in held : TRUE).bytes]

\* A set as a list, in some order.
RECURSIVE ListOf(_)
ListOf(S) ==
    IF S = {} THEN <<>>
    ELSE LET x == CHOOSE y \in S : TRUE IN <<x>> \o ListOf(S \ {x})

\* cache.saveable_state of a cache made over docs: its serialized state.
saveable_state(docs) == {docs[i] : i \in 1..Len(docs)}

\* The descriptor create_cache writes: the filters, the documents and the
\* place of the state, the key made of the name.
cache_metadata(name, docs, filters) ==
    [filters |-> filters, docs |-> docs,
     storage_info |-> [bucket |-> "caches", key |-> name \o "_state.pkl"]]

\* What a create_cache has done: nothing stored, outcome and result as given.
CacheResult(outcome, result, descriptors, blobs, calls) ==
    [outcome |-> outcome, result |-> result, caches |-> descriptors, blobs |-> blobs,
     calls |-> calls, location |-> <<>>, handed |-> <<>>]

\* DocumentService.create_cache(name, model, gguf_file, docs, filters).
\* docs holds the documents by id, "None" for a None.  The descriptor is
\* stored, the cache made and its state uploaded under the key of the
\* descriptor.
create_cache(descriptors, blobs, name, docs, filters, fault) ==
    LET metadata == cache_metadata(name, docs, filters)
        stored == db_store_cache_metadata(descriptors, name, metadata,
                                          fault = "store_cache_metadata")
        upload == upload_from_base64(blobs, saveable_state(docs),
                                     metadata.storage_info.key,
                                     metadata.storage_info.bucket,
                                     fault = "upload_from_base64")
    IN  IF \E i \in 1..Len(docs) : docs[i] = "None"
        THEN CacheResult("AttributeError", "None", descriptors, blobs, {})
        ELSE IF ~stored.val
        THEN CacheResult("return", "failure", descriptors, blobs,
                         {"store_cache_metadata"})
        ELSE IF fault = "create_new_cache"
        THEN CacheResult("CacheError", "None", stored.caches, blobs,
                         {"store_cache_metadata", "create_new_cache"})
        ELSE IF upload.exc # NoExc
        THEN CacheResult(upload.exc, "None", stored.caches, blobs,
                         {"store_cache_metadata", "create_new_cache",
                          "upload_from_base64"})
        ELSE [CacheResult("return", "success", stored.caches, upload.blobs,
                          {"store_cache_metadata", "create_new_cache",
                           "upload_from_base64"})
                EXCEPT !.location = upload.val]

\* api.py create_cache: the documents of the filter and the documents
\* listed are put into one set (a Document counts once per id, a listed id
\* without a document puts None into it); an empty set is answered with
\* HTTP 400, any other goes to DocumentService.create_cache as a list.
api_create_cache(coll, descriptors, blobs, name, filters, docs, auth, fault) ==
    LET filter_docs == db_get_documents(coll, auth, filters, fault = "get_documents")
        failing == fault = "get_document" /\ docs # <<>>
        additional_docs ==
            {IF db_get_document(coll, docs[i], auth, FALSE).val = {} THEN "None"
             ELSE docs[i] : i \in 1..Len(docs)}
        docs_to_add == ListOf({d.external_id : d \in filter_docs.val}
                               \cup additional_docs)
        looked == {"get_documents"} \cup (IF docs # <<>> THEN {"get_document"} ELSE {})
        made == create_cache(descriptors, blobs, name, docs_to_add, filters, fault)
    IN  IF ~HasAttr(auth, "entity_id")
        THEN CacheResult("AttributeError", "None", descriptors, blobs, {})
        ELSE IF filter_docs.exc # NoExc
        THEN CacheResult(filter_docs.exc, "None", descriptors, blobs, {"get_documents"})
        ELSE IF failing
        THEN CacheResult(db_get_document(coll, docs[1], auth, TRUE).exc, "None",
                         descriptors, blobs, looked)
        ELSE IF docs_to_add = <<>>
        THEN CacheResult("HTTP 400", "None", descriptors, blobs, looked)
        ELSE [made EXCEPT !.calls = looked \cup {"create_cache"} \cup @,
                          !.handed = docs_to_add]

\* load_cache without "if not metadata: return False": a name without a
\* descriptor is made active as an empty cache.
load_without_descriptor(descriptors, blobs, active, name, fault) ==
    LET metadata == db_get_cache_metadata(descriptors, name,
                                          fault = "get_cache_metadata")
        info == (CHOOSE m \in metadata.val : TRUE).storage_info
        from == <<info.bucket, "caches/" \o info.key>>
        cache_bytes == download_file(blobs, from[1], from[2], fault = "download_file")
        cache == [name |-> name,
                  filters |-> (CHOOSE m \in metadata.val : TRUE).filters,
                  docs |-> saveable_state((CHOOSE m \in metadata.val : TRUE).docs),
                  state |-> cache_bytes.val]
    IN  IF metadata.exc # NoExc
        THEN [outcome |-> "return", result |-> "failure", active |-> active,
              location |-> <<>>, calls |-> {"get_cache_metadata"}]
        ELSE IF metadata.val = {}
        THEN [outcome |-> "return", result |-> "success",
              active |-> {c \in active : c.name # name}
                           \cup {[name |-> name, filters |-> <<>>, docs |-> {},
                                  state |-> {}]},
              location |-> <<>>, calls |-> {"get_cache_metadata"}]
        ELSE IF cache_bytes.exc # NoExc
        THEN [outcome |-> "return", result |-> "failure", active |-> active,
              location |-> from, calls |-> {"get_cache_metadata", "download_file"}]
        ELSE IF fault = "load_cache_from_bytes"
        THEN [outcome |-> "return", result |-> "failure", active |-> active,
              location |-> from,
              calls |-> {"get_cache_metadata", "download_file", "load_cache_from_bytes"}]
        ELSE [outcome |-> "return", result |-> "success",
              active |-> {c \in active : c.name # name} \cup {cache},
              location |-> from,
              calls |-> {"get_cache_metadata", "download_file", "load_cache_from_bytes"}]

\* load_cache with "self.active_caches.setdefault(name, cache)": a cache
\* that is active under the name stays as it is.
load_keeping_active(descriptors, blobs, active, name, fault) ==
    LET metadata == db_get_cache_metadata(descriptors, name,
                                          fault = "get_cache_metadata")
        info == (CHOOSE m \in metadata.val : TRUE).storage_info
        from == <<info.bucket, "caches/" \o info.key>>
        cache_bytes == download_file(blobs, from[1], from[2], fault = "download_file")
        cache == [name |-> name,
                  filters |-> (CHOOSE m \in metadata.val : TRUE).filters,
                  docs |-> saveable_state((CHOOSE m \in metadata.val : TRUE).docs),
                  state |-> cache_bytes.val]
    IN  IF metadata.exc # NoExc
        THEN [outcome |-> "return", result |-> "failure", active |-> active,
              location |-> <<>>, calls |-> {"get_cache_metadata"}]
        ELSE IF metadata.val = {}
        THEN [outcome |-> "return", result |-> "False", active |-> active,
              location |-> <<>>, calls |-> {"get_cache_metadata"}]
        ELSE IF cache_bytes.exc # NoExc
        THEN [outcome |-> "return", result |-> "failure", active |-> active,
              location |-> from, calls |-> {"get_cache_metadata", "download_file"}]
        ELSE IF fault = "load_cache_from_bytes"
        THEN [outcome |-> "return", result |-> "failure", active |-> active,
              location |-> from,
              calls |-> {"get_cache_metadata", "download_file", "load_cache_from_bytes"}]
        ELSE [outcome |-> "return", result |-> "success",
              active |-> IF \E c \in active : c.name = name THEN active
                         ELSE active \cup {cache},
              location |-> from,
              calls |-> {"get_cache_metadata", "download_file", "load_cache_from_bytes"}]

\* DocumentService.load_cache(name): the descriptor is read, the state
\* downloaded and made into a cache, the cache put into active_caches.
\* Without a descriptor the answer is False; any exception is caught and
\* answered with a dict that says success False.
load_cache(descriptors, blobs, active, name, fault) ==
    LET metadata == db_get_cache_metadata(descriptors, name,
                                          fault = "get_cache_metadata")
        info == (CHOOSE m \in metadata.val : TRUE).storage_info
        from == <<info.bucket, "caches/" \o info.key>>
        cache_bytes == download_file(blobs, from[1], from[2], fault = "download_file")
        cache == [name |-> name,
                  filters |-> (CHOOSE m \in metadata.val : TRUE).filters,
                  docs |-> saveable_state((CHOOSE m \in metadata.val : TRUE).docs),
                  state |-> cache_bytes.val]
    IN  IF metadata.exc # NoExc
        THEN [outcome |-> "return", result |-> "failure", active |-> active,
              location |-> <<>>, calls |-> {"get_cache_metadata"}]
        ELSE IF metadata.val = {}
        THEN [outcome |-> "return", result |-> "False", active |-> active,
              location |-> <<>>, calls |-> {"get_cache_metadata"}]
        ELSE IF cache_bytes.exc # NoExc
        THEN [outcome |-> "return", result |-> "failure", active |-> active,
              location |-> from, calls |-> {"get_cache_metadata", "download_file"}]
        ELSE IF fault = "load_cache_from_bytes"
        THEN [outcome |-> "return", result |-> "failure", active |-> active,
              location |-> from,
              calls |-> {"get_cache_metadata", "download_file", "load_cache_from_bytes"}]
        ELSE [outcome |-> "return", result |-> "success",
              active |-> {c \in active : c.name # name} \cup {cache},
              location |-> from,
              calls |-> {"get_cache_metadata", "download_file", "load_cache_from_bytes"}]

\* The entries of active_caches under name: one, or none.
ActiveNamed(active, name) == {c \in active : c.name = name}

\* cache.add_docs(docs) of an active cache: the documents are appended to
\* the primed state and recorded; a None among them has no content to
\* append.
add_docs(cache, docs) ==
    IF \E i \in 1..Len(docs) : docs[i] = "None"
    THEN [exc |-> "AttributeError", val |-> FALSE, cache |-> cache]
    ELSE [exc |-> NoExc, val |-> TRUE,
          cache |-> [cache EXCEPT !.docs = @ \cup saveable_state(docs),
                                  !.state = @ \cup saveable_state(docs)]]

\* What a handler of an active cache has done: outcome and result as given,
\* handed the documents passed to cache.add_docs.
CacheOpResult(outcome, result, active, handed, calls) ==
    [outcome |-> outcome, result |-> result, active |-> active, handed |-> handed,
     calls |-> calls]

\* bool(x) of an answer of load_cache: False and None count as false, a
\* dictionary with entries counts as true whatever it says.
Truthy(result) == result \notin {"False", "None"}

\* api.py update_cache: a name that is not active is loaded first and
\* answered with HTTP 404 when load_cache answers something false; then the
\* cache is taken from active_caches, the documents of its filter are
\* listed, and those whose id the cache does not record go to add_docs.
api_update_cache(coll, descriptors, blobs, active, name, auth, fault) ==
    LET must_load == ActiveNamed(active, name) = {}
        exists == load_cache(descriptors, blobs, active, name, fault)
        now == IF must_load THEN exists.active ELSE active
        cache == CHOOSE c \in ActiveNamed(now, name) : TRUE
        docs == db_get_documents(coll, auth, cache.filters, fault = "get_documents")
        docs_to_add == ListOf({d.external_id : d \in docs.val} \ cache.docs)
        added == add_docs(cache, docs_to_add)
        loads == IF must_load THEN {"load_cache"} ELSE {}
    IN  IF ~HasAttr(auth, "entity_id")
        THEN CacheOpResult("AttributeError", "None", active, <<>>, {})
        ELSE IF must_load /\ ~Truthy(exists.result)
        THEN CacheOpResult("HTTP 404", "None", now, <<>>, loads)
        ELSE IF ActiveNamed(now, name) = {}
        THEN CacheOpResult("KeyError", "None", now, <<>>, loads)
        ELSE IF docs.exc # NoExc
        THEN CacheOpResult(docs.exc, "None", now, <<>>, loads \cup {"get_documents"})
        ELSE CacheOpResult("return", "True",
                           (now \ ActiveNamed(now, name)) \cup {added.cache},
                           docs_to_add, loads \cup {"get_documents", "add_docs"})

\* The documents add_docs_to_cache fetches: one get_document per listed id
\* the cache does not record, None for an id that finds nothing.
RECURSIVE fetched_docs(_, _, _, _)
fetched_docs(coll, auth, recorded, docs) ==
    IF docs = <<>> THEN <<>>
    ELSE IF Head(docs) \in recorded THEN fetched_docs(coll, auth, recorded, Tail(docs))
    ELSE <<IF db_get_document(coll, Head(docs), auth, FALSE).val = {} THEN "None"
           ELSE Head(docs)>>
           \o fetched_docs(coll, auth, recorded, Tail(docs))

\* api.py add_docs_to_cache: the cache is taken from active_caches, each
\* listed id the cache does not record is fetched, and what was fetched
\* goes to add_docs.
api_add_docs_to_cache(coll, active, name, docs, auth, fault) ==
    LET held == ActiveNamed(active, name)
        cache == CHOOSE c \in held : TRUE
        docs_to_add == fetched_docs(coll, auth, cache.docs, docs)
        added == add_docs(cache, docs_to_add)
    IN  IF ~HasAttr(auth, "entity_id")
        THEN CacheOpResult("AttributeError", "None", active, <<>>, {})
        ELSE IF held = {}
        THEN CacheOpResult("KeyError", "None", active, <<>>, {})
        ELSE IF fault = "get_document" /\ docs_to_add # <<>>
        THEN CacheOpResult(db_get_document(coll, docs[1], auth, TRUE).exc, "None",
                           active, <<>>, {"get_document"})
        ELSE IF added.exc # NoExc
        THEN CacheOpResult(added.exc, "None", active, docs_to_add,
                           {"get_document", "add_docs"})
        ELSE CacheOpResult("return", "True", (active \ held) \cup {added.cache},
                           docs_to_add,
                           (IF docs_to_add # <<>> THEN {"get_document"} ELSE {})
                             \cup {"add_docs"})

\* api.py query_cache: the cache is taken from active_caches and queried.
api_query_cache(active, name, auth) ==
    IF ~HasAttr(auth, "entity_id")
    THEN CacheOpResult("AttributeError", "None", active, <<>>, {})
    ELSE IF ActiveNamed(active, name) = {}
    THEN CacheOpResult("KeyError", "None", active, <<>>, {})
    ELSE CacheOpResult("return", "completion", active, <<>>, {"query"})

(***************************************************************************)
(* Actions: one per handler.  A handler runs when the previous call has    *)
(* answered (Respond); r is what the handler did.                          *)
(***************************************************************************)
Idle == last.op = "none"

DeleteDocumentAndChunks ==
    /\ Idle
    /\ \E external_id \in DocIds, auth \in AuthContext,
       fault \in {"none", "get_document", "delete_document", "delete_chunks"} :
      \E nDeleted \in (IF fault \in {"none", "delete_chunks"}
                       THEN 0..index[external_id] ELSE {0}),
         asBool \in (IF fault = "none" THEN BOOLEAN ELSE {FALSE}) :
        /\ \E r \in {delete_document_and_chunks(collection, index, external_id, auth,
                        [fault |-> fault, nDeleted |-> nDeleted, asBool |-> asBool])} :
               /\ collection' = r.coll
               /\ index' = r.idx
               /\ last' = [NoCall EXCEPT !.op = "delete_document_and_chunks",
                                         !.user = auth.user_id, !.id = external_id,
                                         !.outcome = r.outcome, !.result = r.result,
                                         !.calls = r.calls, !.count = r.count,
                                         !.visible = r.visible,
                                         !.document_deleted = r.document_deleted,
                                         !.deleted_count = r.deleted_count]
    /\ UNCHANGED <<tasks, provider, USE_RERANKING, storage, caches, active_caches>>

\* A direct call of the store's update_document.
UpdateDocument ==
    /\ Idle
    /\ \E document_id \in DocIds, auth \in AuthContext, t \in Tags, err \in BOOLEAN :
        \E r \in {db_update_document(collection, document_id, [tag |-> t], auth, err)} :
               /\ collection' = r.coll
               /\ last' = [NoCall EXCEPT
                             !.op = "update_document",
                             !.user = auth.user_id, !.id = document_id,
                             !.outcome = IF r.exc = NoExc THEN "return" ELSE r.exc,
                             !.result = IF r.exc # NoExc THEN "None"
                                        ELSE IF r.val THEN "True" ELSE "False"]
    /\ UNCHANGED <<tasks, provider, USE_RERANKING, index, storage, caches, active_caches>>

\* A direct call of the store's delete_document.
DeleteDocument ==
    /\ Idle
    /\ \E document_id \in DocIds, auth \in AuthContext, err \in BOOLEAN :
        \E r \in {db_delete_document(collection, document_id, auth, err)} :
               /\ collection' = r.coll
               /\ last' = [NoCall EXCEPT
                             !.op = "delete_document",
                             !.user = auth.user_id, !.id = document_id,
                             !.outcome = IF r.exc = NoExc THEN "return" ELSE r.exc,
                             !.result = IF r.exc # NoExc THEN "None"
                                        ELSE IF r.val THEN "True" ELSE "False"]
    /\ UNCHANGED <<tasks, provider, USE_RERANKING, index, storage, caches, active_caches>>

\* The documents get_document finds for the caller.  A chunk of another
\* document reaches no result (the allow-list of query_similar and
\* get_document both drop it), so the rankings drawn hold none.
VisibleIds(coll, auth) ==
    {d \in DocIds : db_get_document(coll, d, auth, FALSE).val # {}}

\* The metadata filters a caller sends: none, or the tag "a" (a document
\* carries any tag, so the filter both matches and misses).
Filters == {<<>>, [key \in {"tag"} |-> "a"]}

RetrieveChunks ==
    /\ Idle
    /\ \E auth \in AuthContext, filters \in Filters, k \in 1..MaxK,
          use_reranking \in {"None", "True", "False"} :
        LET reranks == ShouldRerank(use_reranking) /\ reranker_configured
        IN
        \E ranking \in {c \in Rankings(index, VisibleIds(collection, auth)) :
                           Len(c) <= IF ShouldRerank(use_reranking)
                                     THEN RerankFactor * k ELSE k} :
          \E fault \in (IF ranking = <<>>
                        THEN {"none", "embed_for_query", "find_authorized"}
                        ELSE {"none", "get_document"}) :
          \E score \in (IF reranks \/ fault # "none"
                        THEN {[i \in 1..Len(ranking) |-> 1]}
                        ELSE [1..Len(ranking) -> Scores]),
             rscore \in (IF reranks /\ fault = "none"
                         THEN [1..Len(ranking) -> Scores]
                         ELSE {[i \in 1..Len(ranking) |-> 1]}) :
            \E r \in {retrieve_chunks(collection, index, auth, filters, k, use_reranking,
                         [fault |-> fault, ranking |-> ranking, score |-> score,
                          rscore |-> rscore])} :
                last' = [NoCall EXCEPT !.op = "retrieve_chunks",
                                       !.user = auth.user_id, !.k = k,
                                       !.use_reranking = use_reranking,
                                       !.outcome = r.outcome, !.results = r.results,
                                       !.doc_ids = r.doc_ids, !.found = r.found,
                                       !.calls = r.calls]
    /\ UNCHANGED <<tasks, provider, USE_RERANKING, collection, index, storage, caches, active_caches>>

\* retrieve_chunks over an index that ranks the chunks of every document
\* it holds, those of documents without a record among them (all scores
\* are 1, no adapter fails).
RetrieveChunksOverIndex ==
    /\ Idle
    /\ \E auth \in AuthContext, filters \in Filters, k \in 1..MaxK,
          ranking \in Rankings(index, DocIds) :
        \E r \in {retrieve_chunks(collection, index, auth, filters, k, "None",
                     [fault |-> "none", ranking |-> ranking,
                      score |-> [i \in 1..Len(ranking) |-> 1],
                      rscore |-> [i \in 1..Len(ranking) |-> 1]])} :
            last' = [NoCall EXCEPT !.op = "retrieve_chunks",
                                   !.user = auth.user_id, !.k = k,
                                   !.filters = filters,
                                   !.outcome = r.outcome, !.results = r.results,
                                   !.doc_ids = r.doc_ids, !.found = r.found,
                                   !.calls = r.calls,
                                   !.candidates = ranking]
    /\ UNCHANGED <<tasks, provider, USE_RERANKING, collection, index, storage, caches, active_caches>>

\* retrieve_chunks with reranking in force: asked for, or left to
\* USE_RERANKING, with a reranker configured; the reranker scores the
\* candidates in any way (the similarity scores are all 1, no adapter
\* fails).
RetrieveChunksReranked ==
    /\ Idle
    /\ reranker_configured
    /\ \E auth \in AuthContext, filters \in Filters, k \in 1..MaxK,
          use_reranking \in {u \in {"None", "True"} : ShouldRerank(u)} :
        \E ranking \in Rankings(index, VisibleIds(collection, auth)) :
        \E rscore \in [1..Len(ranking) -> Scores] :
          \E r \in {retrieve_chunks(collection, index, auth, filters, k, use_reranking,
                       [fault |-> "none", ranking |-> ranking,
                        score |-> [i \in 1..Len(ranking) |-> 1],
                        rscore |-> rscore])} :
              last' = [NoCall EXCEPT !.op = "retrieve_chunks",
                                     !.user = auth.user_id, !.k = k,
                                     !.filters = filters,
                                     !.use_reranking = use_reranking,
                                     !.outcome = r.outcome, !.results = r.results,
                                     !.doc_ids = r.doc_ids, !.found = r.found,
                                     !.calls = r.calls,
                                     !.candidates = r.reranked]
    /\ UNCHANGED <<tasks, provider, USE_RERANKING, collection, index, storage, caches, active_caches>>

\* retrieve_docs: the inputs and adapter answers of retrieve_chunks, and a
\* possible error of the lookups that follow it.
RetrieveDocs ==
    /\ Idle
    /\ \E auth \in AuthContext, filters \in Filters, k \in 1..MaxK,
          use_reranking \in {"None", "True", "False"} :
        LET reranks == ShouldRerank(use_reranking) /\ reranker_configured
        IN
        \E ranking \in {c \in Rankings(index, VisibleIds(collection, auth)) :
                           Len(c) <= IF ShouldRerank(use_reranking)
                                     THEN RerankFactor * k ELSE k} :
          \E fault \in (IF ranking = <<>>
                        THEN {"none", "embed_for_query", "find_authorized"}
                        ELSE {"none", "get_document", "get_document_results"}) :
          \E score \in (IF reranks \/ fault # "none"
                        THEN {[i \in 1..Len(ranking) |-> 1]}
                        ELSE [1..Len(ranking) -> Scores]),
             rscore \in (IF reranks /\ fault = "none"
                         THEN [1..Len(ranking) -> Scores]
                         ELSE {[i \in 1..Len(ranking) |-> 1]}) :
            \E r \in {retrieve_docs(collection, index, auth, filters, k, use_reranking,
                         [fault |-> fault, ranking |-> ranking, score |-> score,
                          rscore |-> rscore])} :
                last' = [NoCall EXCEPT !.op = "retrieve_docs",
                                       !.user = auth.user_id, !.k = k,
                                       !.use_reranking = use_reranking,
                                       !.outcome = r.outcome, !.results = r.chunks,
                                       !.documents = r.documents,
                                       !.calls = r.calls]
    /\ UNCHANGED <<tasks, provider, USE_RERANKING, collection, index, storage, caches, active_caches>>

\* The ids Document() can generate: those no record and no chunk carries.
FreshIds == {d \in DocIds : index[d] = 0 /\ \A x \in collection : x.external_id # d}

\* What the adapters of an ingestion answer.  The rules extract metadata
\* only when there are rules, and the text is split again only when they
\* rewrite it; what a call that is not reached would answer is left at
\* its first value.
IngestEnv(faults) ==
    {e \in [external_id : FreshIds, nChunks : 0..MaxParsed,
            nEmbeddings : 0..MaxParsed, fault : faults,
            rules : {"none", "keep", "rewrite"},
            rule_metadata : {<<>>, [tag |-> "b"]},
            nRechunked : 0..MaxParsed] :
        /\ ~HasRules(e) => (e.rule_metadata = <<>> /\ e.fault # "process_rules")
        /\ ~Rewrites(e) => e.nRechunked = 0
        /\ e.fault = "parse_file" => (e.nChunks = 0 /\ e.rules = "none")
        /\ e.fault = "process_rules" => (e.rule_metadata = <<>> /\ e.nRechunked = 0)
        /\ e.fault \in {"parse_file", "process_rules", "upload_from_base64",
                        "embed_for_ingestion"} => e.nEmbeddings = 0}

\* The metadata a caller sends with an ingestion.
CallerMetadata == {[tag |-> "a"]}

\* The chunk results of candidate chunks: _create_chunk_results applied to
\* what a vector search may hand it, chunks of any document of the index
\* (a document can lose its record between the search and the lookup; the
\* scores play no part and are all 1).
CreateChunkResults ==
    /\ Idle
    /\ \E auth \in AuthContext, ranking \in Rankings(index, DocIds), getErr \in BOOLEAN :
        LET candidates == [i \in 1..Len(ranking) |->
                             [document_id |-> ranking[i][1],
                              chunk_number |-> ranking[i][2], score |-> 1]]
        IN  \E r \in {create_chunk_results(collection, auth, candidates, getErr)} :
              last' = [NoCall EXCEPT
                         !.op = "create_chunk_results", !.user = auth.user_id,
                         !.candidates = candidates,
                         !.env = [NoEnv EXCEPT !.fault = IF getErr THEN "get_document"
                                                         ELSE "none"],
                         !.outcome = IF r.exc # NoExc THEN r.exc ELSE "return",
                         !.results = r.val]
    /\ UNCHANGED <<tasks, provider, USE_RERANKING, collection, index, storage, caches, active_caches>>

\* The metadata filters a caller may send to the store: any keys, those
\* of the record's own fields among them.
FilterKeys == {"tag", "owner_id", "external_id"}
FilterValues == {"a", "u2", "d1"}
StoreFilters == UNION {[keys -> FilterValues] : keys \in SUBSET FilterKeys}

\* A direct call of the store's find_authorized_and_filtered_documents.
FindAuthorized ==
    /\ Idle
    /\ \E auth \in AuthContext, filters \in StoreFilters, err \in BOOLEAN :
        \E r \in {db_find_authorized_and_filtered_documents(collection, auth,
                                                            filters, err)} :
            last' = [NoCall EXCEPT
                       !.op = "find_authorized_and_filtered_documents",
                       !.user = auth.user_id, !.filters = filters,
                       !.outcome = IF r.exc # NoExc THEN r.exc ELSE "return",
                       !.doc_ids = r.val]
    /\ UNCHANGED <<tasks, provider, USE_RERANKING, collection, index, storage, caches, active_caches>>

\* An auth object that carries every field the handlers and the stores
\* read.
FullAuth ==
    {[user_id |-> u, entity_type |-> "developer", entity_id |-> u,
      permissions |-> {"read", "write"}] : u \in Users}

\* The document ids a create_cache request lists: none, or up to MaxListed.
ListedDocs == UNION {[1..n -> DocIds] : n \in 0..MaxListed}

\* POST /cache/create called with an auth object of the set auths.
ApiCreateCacheBy(auths) ==
    /\ Idle
    /\ \E auth \in auths, name \in CacheNames, filters \in Filters, docs \in ListedDocs,
          fault \in {"none", "get_documents", "get_document", "store_cache_metadata",
                     "create_new_cache", "upload_from_base64"} :
        \E r \in {api_create_cache(collection, caches, storage, name, filters, docs,
                                    auth, fault)} :
            /\ caches' = r.caches
            /\ storage' = r.blobs
            /\ last' = [NoCall EXCEPT
                          !.op = "api_create_cache", !.user = CallerOf(auth),
                          !.id = name, !.filters = filters, !.listed = docs,
                          !.env = [NoEnv EXCEPT !.fault = fault],
                          !.outcome = r.outcome, !.result = r.result,
                          !.calls = r.calls, !.handed = r.handed,
                          !.location = r.location]
    /\ UNCHANGED <<tasks, provider, USE_RERANKING, collection, index, active_caches>>

\* The endpoint as api.py calls it, with an AuthContext.
ApiCreateCache == ApiCreateCacheBy(AuthContext)

\* The endpoint called with an auth object that carries every field read.
ApiCreateCacheAs == ApiCreateCacheBy(FullAuth)

\* DocumentService.load_cache(name).
LoadCache ==
    /\ Idle
    /\ \E name \in CacheNames,
          fault \in {"none", "get_cache_metadata", "download_file",
                     "load_cache_from_bytes"} :
        \E r \in {load_cache(caches, storage, active_caches, name, fault)} :
            /\ active_caches' = r.active
            /\ last' = [NoCall EXCEPT
                          !.op = "load_cache", !.id = name,
                          !.env = [NoEnv EXCEPT !.fault = fault],
                          !.outcome = r.outcome, !.result = r.result,
                          !.calls = r.calls, !.location = r.location]
    /\ UNCHANGED <<tasks, provider, USE_RERANKING, collection, index, storage, caches>>

\* A blob store that keeps the objects of a bucket under keys that begin
\* with the bucket: what it holds, by the keys a download names.
Prefixed(blobs) == {[b EXCEPT !.key = b.bucket \o "/" \o b.key] : b \in blobs}

\* load_cache(name) on a blob store that keeps keys under their bucket.
LoadCacheStored ==
    /\ Idle
    /\ \E name \in CacheNames, fault \in {"none", "download_file"} :
        \E r \in {load_cache(caches, Prefixed(storage), active_caches, name, fault)} :
            /\ active_caches' = r.active
            /\ last' = [NoCall EXCEPT
                          !.op = "load_cache", !.id = name,
                          !.env = [NoEnv EXCEPT !.fault = fault],
                          !.outcome = r.outcome, !.result = r.result,
                          !.calls = r.calls, !.location = r.location]
    /\ UNCHANGED <<tasks, provider, USE_RERANKING, collection, index, storage, caches>>

\* POST /cache/{name}/update called with an auth object of the set auths,
\* the blob store seen as blobs.
UpdateCacheBy(auths, blobs) ==
    /\ Idle
    /\ \E auth \in auths, name \in CacheNames,
          fault \in {"none", "get_cache_metadata", "download_file",
                     "load_cache_from_bytes", "get_documents"} :
        \E r \in {api_update_cache(collection, caches, blobs, active_caches, name,
                                    auth, fault)} :
            /\ active_caches' = r.active
            /\ last' = [NoCall EXCEPT
                          !.op = "api_update_cache", !.user = CallerOf(auth),
                          !.id = name, !.env = [NoEnv EXCEPT !.fault = fault],
                          !.outcome = r.outcome, !.result = r.result,
                          !.calls = r.calls, !.handed = r.handed]
    /\ UNCHANGED <<tasks, provider, USE_RERANKING, collection, index, storage, caches>>

UpdateCache == UpdateCacheBy(AuthContext, storage)
UpdateCacheAs == UpdateCacheBy(FullAuth, storage)
UpdateCacheStored == UpdateCacheBy(FullAuth, Prefixed(storage))

\* POST /cache/{name}/add_docs called with an auth object of the set auths.
AddDocsToCacheBy(auths) ==
    /\ Idle
    /\ \E auth \in auths, name \in CacheNames, docs \in ListedDocs,
          fault \in {"none", "get_document"} :
        \E r \in {api_add_docs_to_cache(collection, active_caches, name, docs, auth,
                                         fault)} :
            /\ active_caches' = r.active
            /\ last' = [NoCall EXCEPT
                          !.op = "api_add_docs_to_cache", !.user = CallerOf(auth),
                          !.id = name, !.listed = docs,
                          !.env = [NoEnv EXCEPT !.fault = fault],
                          !.outcome = r.outcome, !.result = r.result,
                          !.calls = r.calls, !.handed = r.handed]
    /\ UNCHANGED <<tasks, provider, USE_RERANKING, collection, index, storage, caches>>

AddDocsToCache == AddDocsToCacheBy(AuthContext)
AddDocsToCacheAs == AddDocsToCacheBy(FullAuth)

\* POST /cache/{name}/query called with an auth object of the set auths.
QueryCacheBy(auths) ==
    /\ Idle
    /\ \E auth \in auths, name \in CacheNames :
        \E r \in {api_query_cache(active_caches, name, auth)} :
            last' = [NoCall EXCEPT
                       !.op = "api_query_cache", !.user = CallerOf(auth), !.id = name,
                       !.outcome = r.outcome, !.result = r.result, !.calls = r.calls]
    /\ UNCHANGED <<tasks, provider, USE_RERANKING, collection, index, storage, caches,
                   active_caches>>

QueryCache == QueryCacheBy(AuthContext)
QueryCacheAs == QueryCacheBy(FullAuth)

\* ingest_text called with an auth object of auths, a metadata argument of
\* metadatas ({} for None, {m} for a dictionary) and adapters as in envs.
IngestTextWith(auths, metadatas, envs) ==
    /\ Idle
    /\ \E auth \in auths, metadata \in metadatas, env \in envs :
        \E r \in {ingest_text(collection, index, metadata, auth, env)} :
            /\ collection' = r.coll
            /\ index' = r.idx
            /\ last' = [NoCall EXCEPT !.op = "ingest_text", !.user = CallerOf(auth),
                                      !.id = env.external_id, !.outcome = r.outcome,
                                      !.calls = r.calls, !.env = env,
                                      !.metadata = metadata,
                                      !.content = r.content,
                                      !.stored = r.chunk_objects,
                                      !.results = IF r.doc = {} THEN <<>>
                                                  ELSE (CHOOSE d \in r.doc : TRUE).chunk_ids]
    /\ UNCHANGED <<tasks, provider, USE_RERANKING, storage, caches, active_caches>>

\* ingest_text called with an auth object of the set auths.
IngestTextBy(auths) ==
    IngestTextWith(auths, {{m} : m \in CallerMetadata},
                   {e \in IngestEnv({"none", "process_rules", "embed_for_ingestion",
                                     "store_embeddings", "store_document"}) :
                       e.nRechunked = 0})

\* ingest_file called with an auth object of auths, a metadata dictionary
\* of metadatas and adapters as in envs.
IngestFileWith(auths, metadatas, envs) ==
    /\ Idle
    /\ \E auth \in auths, metadata \in metadatas, env \in envs :
        \E r \in {ingest_file(collection, index, storage, metadata, auth, env)} :
            /\ collection' = r.coll
            /\ index' = r.idx
            /\ storage' = r.blobs
            /\ last' = [NoCall EXCEPT !.op = "ingest_file", !.user = CallerOf(auth),
                                      !.id = env.external_id, !.outcome = r.outcome,
                                      !.calls = r.calls, !.uploads = r.uploads,
                                      !.env = env, !.metadata = {metadata},
                                      !.content = r.content,
                                      !.stored = r.chunk_objects,
                                      !.results = IF r.doc = {} THEN <<>>
                                                  ELSE (CHOOSE d \in r.doc : TRUE).chunk_ids]
    /\ UNCHANGED <<tasks, provider, USE_RERANKING, caches, active_caches>>

\* ingest_file called with an auth object of the set auths.
IngestFileBy(auths) ==
    IngestFileWith(auths, CallerMetadata,
                   IngestEnv({"none", "parse_file", "process_rules",
                              "upload_from_base64", "embed_for_ingestion",
                              "store_embeddings", "store_document"}))

\* Ingestions with rules: the caller sends no metadata (None to
\* ingest_text, which declares it Optional), an empty dictionary or a tag;
\* the rules extract nothing or a tag, and may leave the text alone,
\* rewrite it, or rewrite it to the empty text.
RuledEnv ==
    LET ruled == {e \in IngestEnv({"none", "process_rules"}) : HasRules(e)}
    IN  ruled \cup {[e EXCEPT !.rules = "erase"] : e \in {x \in ruled : x.rules = "keep"}}
IngestTextRuled ==
    IngestTextWith(TokenAuth, {{}} \cup {{m} : m \in {<<>>} \cup CallerMetadata},
                   {e \in RuledEnv : e.nRechunked = 0})
IngestFileRuled ==
    IngestFileWith(TokenAuth, {<<>>} \cup CallerMetadata, RuledEnv)

\* The handlers as api.py calls them, with an AuthContext.
IngestText == IngestTextBy(AuthContext)
IngestFile == IngestFileBy(AuthContext)

\* The handlers called with the auth object they read.
IngestTextAs == IngestTextBy(TokenAuth)
IngestFileAs == IngestFileBy(TokenAuth)

\* The part of ingest_text and ingest_file after the document is made,
\* applied to a new document of owner u with one tag and at least one
\* parsed chunk.
EmbedAndStore ==
    /\ Idle
    /\ \E u \in Users, t \in Tags,
          env \in {e \in IngestEnv({"none", "embed_for_ingestion", "store_embeddings",
                                    "store_document"}) :
                      e.nChunks > 0 /\ ~HasRules(e)} :
        \E r \in {embed_and_store(collection, index,
                                 DocumentRec(env.external_id, u, t, 0),
                                 Chunks("content", env.nChunks), env, {})} :
            /\ collection' = r.coll
            /\ index' = r.idx
            /\ last' = [NoCall EXCEPT
                          !.op = "embed_and_store", !.user = u,
                          !.id = env.external_id, !.outcome = r.outcome,
                          !.calls = r.calls,
                          !.results = IF r.doc = {} THEN <<>>
                                      ELSE (CHOOSE d \in r.doc : TRUE).chunk_ids]
    /\ UNCHANGED <<tasks, provider, USE_RERANKING, storage, caches, active_caches>>

\* The documents a create_cache call is handed: some of the collection,
\* each once.
DocsOfCollection ==
    {ListOf(S) : S \in SUBSET {d.external_id : d \in collection} \ {{}}}

\* state_to_upload with the state made of the docs the persisted
\* descriptor of the name records, not of the docs of the call.
state_of_persisted(descriptors, name, docs) ==
    saveable_state((CHOOSE d \in descriptors : d.name = name).metadata.docs)

\* The serialized state a create_cache call uploads: that of the cache it
\* made over its own docs, whatever descriptor is persisted by then.
state_to_upload(descriptors, name, docs) == saveable_state(docs)

\* create_cache of call c up to "await self.db.store_cache_metadata": the
\* descriptor is written; a False answer ends the call with the failure
\* result.
CreateCacheStore(c) ==
    /\ tasks[c] = NoTask
    /\ \E name \in CacheNames, docs \in DocsOfCollection,
          fault \in {"none", "store_cache_metadata"} :
        \E stored \in {db_store_cache_metadata(caches, name,
                                                cache_metadata(name, docs, <<>>),
                                                fault = "store_cache_metadata")} :
            /\ caches' = stored.caches
            /\ tasks' = [tasks EXCEPT
                           ![c] = [op |-> "create_cache",
                                   pc |-> IF stored.val THEN "upload" ELSE "done",
                                   name |-> name, docs |-> docs,
                                   result |-> IF stored.val THEN "None" ELSE "failure"]]
    /\ UNCHANGED <<provider, USE_RERANKING, collection, index, storage, active_caches, last>>

\* create_cache of call c from create_new_cache to "await
\* self.storage.upload_from_base64": the cache is made over the docs of
\* the call and its state uploaded under the key of the name.
CreateCacheUpload(c) ==
    /\ tasks[c].op = "create_cache"
    /\ tasks[c].pc = "upload"
    /\ \E fault \in {"none", "upload_from_base64"} :
        \E upload \in {upload_from_base64(
                           storage,
                           state_to_upload(caches, tasks[c].name, tasks[c].docs),
                           cache_metadata(tasks[c].name, tasks[c].docs, <<>>).storage_info.key,
                           cache_metadata(tasks[c].name, tasks[c].docs, <<>>).storage_info.bucket,
                           fault = "upload_from_base64")} :
            /\ storage' = upload.blobs
            /\ tasks' = [tasks EXCEPT
                           ![c].pc = "done",
                           ![c].result = IF upload.exc = NoExc THEN "success"
                                         ELSE upload.exc]
    /\ UNCHANGED <<provider, USE_RERANKING, collection, index, caches, active_caches, last>>

\* query of call c up to the answer of "await self.retrieve_chunks": the
\* chunk results, each enriched from its parent's record (no adapter
\* fails, the similarity scores are all 1).
QueryRetrieveChunks(c) ==
    /\ tasks[c] = NoTask
    /\ \E auth \in AuthContext, k \in 1..MaxK :
        \E ranking \in {r \in Rankings(index, VisibleIds(collection, auth)) :
                            Len(r) <= k} :
          \E r \in {retrieve_chunks(collection, index, auth, <<>>, k, "False",
                       [fault |-> "none", ranking |-> ranking,
                        score |-> [i \in 1..Len(ranking) |-> 1],
                        rscore |-> [i \in 1..Len(ranking) |-> 1]])} :
              tasks' = [tasks EXCEPT
                          ![c] = [op |-> "query", pc |-> "documents", auth |-> auth,
                                  chunks |-> r.results, documents |-> {},
                                  outcome |-> "none"]]
    /\ UNCHANGED <<provider, USE_RERANKING, collection, index, storage, caches,
                   active_caches, last>>

\* query of call c from "await self._create_document_results" on: the map
\* of document results is built from the records as they are now, then
\* each chunk reads documents[chunk.document_id] (KeyError for an id the
\* map does not hold) and the completion is made.
QueryAssembleContext(c) ==
    /\ tasks[c].op = "query"
    /\ tasks[c].pc = "documents"
    /\ \E docs \in {create_document_results(collection, tasks[c].auth,
                                              tasks[c].chunks, FALSE)} :
        LET documents == {docs.val[i].document_id : i \in 1..Len(docs.val)}
            missing == \E i \in 1..Len(tasks[c].chunks) :
                          tasks[c].chunks[i].document_id \notin documents
        IN  tasks' = [tasks EXCEPT
                        ![c].pc = "done", ![c].documents = documents,
                        ![c].outcome = IF missing THEN "KeyError" ELSE "return"]
    /\ UNCHANGED <<provider, USE_RERANKING, collection, index, storage, caches,
                   active_caches, last>>

\* delete_document_and_chunks of call c up to the answer of "await
\* self.db.get_document": a document that is not found ends the call with
\* False.
DeleteLookup(c) ==
    /\ tasks[c] = NoTask
    /\ \E external_id \in DocIds, auth \in AuthContext :
        \E document \in {db_get_document(collection, external_id, auth, FALSE)} :
            tasks' = [tasks EXCEPT
                        ![c] = [op |-> "delete_document_and_chunks",
                                pc |-> IF document.val = {} THEN "done"
                                       ELSE "count_number_of_chunks",
                                id |-> external_id, auth |-> auth, count |-> -1,
                                outcome |-> "return", result |-> "False"]]
    /\ UNCHANGED <<provider, USE_RERANKING, collection, index, storage, caches,
                   active_caches, last>>

\* delete_document_and_chunks of call c from one await to the next: the
\* count of the chunks (0 ends the call with False), the deletion of the
\* record (False ends the call with False, an exception ends it), the
\* deletion of the chunks (the vector store deletes the chunks it holds
\* and answers their number, or a bool as BaseVectorStore declares) and
\* its comparison with the count.
DeleteAdvance(c) ==
    /\ tasks[c].op = "delete_document_and_chunks"
    /\ \/ /\ tasks[c].pc = "count_number_of_chunks"
          /\ \E count \in {count_number_of_chunks(index, tasks[c].id)} :
                tasks' = [tasks EXCEPT
                            ![c].count = count,
                            ![c].pc = IF count = 0 THEN "done" ELSE "delete_document"]
          /\ UNCHANGED <<collection, index>>
       \/ /\ tasks[c].pc = "delete_document"
          /\ \E deleted \in {db_delete_document(collection, tasks[c].id,
                                                  tasks[c].auth, FALSE)} :
                /\ collection' = deleted.coll
                /\ tasks' = [tasks EXCEPT
                               ![c].pc = IF deleted.exc = NoExc /\ deleted.val
                                         THEN "delete_chunks" ELSE "done",
                               ![c].outcome = IF deleted.exc = NoExc THEN "return"
                                              ELSE deleted.exc,
                               ![c].result = IF deleted.exc = NoExc THEN "False"
                                             ELSE "None"]
          /\ UNCHANGED index
       \/ /\ tasks[c].pc = "delete_chunks"
          /\ \E asBool \in BOOLEAN :
              \E chunks \in {delete_chunks(index, tasks[c].id, index[tasks[c].id],
                                            FALSE, asBool)} :
                /\ index' = chunks.idx
                /\ tasks' = [tasks EXCEPT
                               ![c].pc = "done",
                               ![c].result = IF chunks.val # tasks[c].count
                                             THEN "False" ELSE "True"]
          /\ UNCHANGED collection
    /\ UNCHANGED <<provider, USE_RERANKING, storage, caches, active_caches, last>>

\* The calls in progress have all ended; their results are handed back.
TasksReturn ==
    /\ \E c \in Calls : tasks[c] # NoTask
    /\ \A c \in Calls : tasks[c].pc \in {"none", "done"}
    /\ tasks' = [c \in Calls |-> NoTask]
    /\ UNCHANGED <<provider, USE_RERANKING, collection, index, storage, caches,
                   active_caches, last>>

\* The call has answered; the next request is taken.
Respond ==
    /\ ~Idle
    /\ last' = NoCall
    /\ UNCHANGED <<tasks, provider, USE_RERANKING, collection, index, storage, caches, active_caches>>

(***************************************************************************)
(* The initial state: the configuration api.py reads, and the stores as    *)
(* earlier runs left them (a document's chunk_ids are its indexed chunks;  *)
(* chunks without a metadata record are orphans of an earlier failure).    *)
(***************************************************************************)
Init ==
    /\ provider \in {"mongodb", "postgres"}
    /\ USE_RERANKING \in BOOLEAN
    /\ index \in [DocIds -> 0..MaxChunks]
    /\ collection \in {{DocumentRec(d, owner[d], tag[d], index[d]) : d \in present} :
                           present \in SUBSET DocIds, owner \in [DocIds -> Users],
                           tag \in [DocIds -> Tags]}
    /\ storage = {}
    /\ caches = {}
    /\ active_caches = {}
    /\ tasks = [c \in Calls |-> NoTask]
    /\ last = NoCall

Next ==
    \/ DeleteDocumentAndChunks
    \/ UpdateDocument
    \/ DeleteDocument
    \/ RetrieveChunks
    \/ IngestText
    \/ IngestFile
    \/ FindAuthorized
    \/ RetrieveDocs
    \/ ApiCreateCache
    \/ LoadCache
    \/ UpdateCache
    \/ AddDocsToCache
    \/ QueryCache
    \/ Respond

Spec == Init /\ [][Next]_vars

\* The handlers one at a time, from the same initial states.
NextDelete == DeleteDocumentAndChunks \/ UpdateDocument \/ DeleteDocument \/ Respond
SpecDelete == Init /\ [][NextDelete]_vars

NextRetrieve == RetrieveChunks \/ Respond
SpecRetrieve == Init /\ [][NextRetrieve]_vars

NextIngest == IngestText \/ IngestFile \/ Respond
SpecIngest == Init /\ [][NextIngest]_vars

\* The cache handlers, called with an auth object that carries every field
\* read.
NextCacheAs ==
    \/ ApiCreateCacheAs
    \/ LoadCache
    \/ UpdateCacheAs
    \/ AddDocsToCacheAs
    \/ QueryCacheAs
    \/ Respond
SpecCacheAs == Init /\ [][NextCacheAs]_vars

\* The cache handlers on a blob store that keeps keys under their bucket,
\* so that a created cache can be loaded, beside updates of documents.
NextCacheLoaded ==
    \/ ApiCreateCacheAs
    \/ LoadCacheStored
    \/ UpdateCacheStored
    \/ AddDocsToCacheAs
    \/ QueryCacheAs
    \/ UpdateDocument
    \/ Respond
\* The cache handlers read neither the vector index nor USE_RERANKING:
\* the documents start without chunks.
InitCacheLoaded ==
    /\ Init
    /\ ~USE_RERANKING
    /\ \A d \in DocIds : index[d] = 0
SpecCacheLoaded == InitCacheLoaded /\ [][NextCacheLoaded]_vars

\* Retrievals between and after deletions, over an index that still holds
\* the chunks of documents whose record is gone.
NextRetrieveDeleted ==
    \/ DeleteDocumentAndChunks
    \/ DeleteDocument
    \/ RetrieveChunksOverIndex
    \/ Respond
SpecRetrieveDeleted == Init /\ [][NextRetrieveDeleted]_vars

\* create_cache calls in progress together, each a step at a time.
NextCreateRace ==
    \/ \E c \in Calls : CreateCacheStore(c)
    \/ \E c \in Calls : CreateCacheUpload(c)
    \/ TasksReturn
SpecCreateRace == Init /\ [][NextCreateRace]_vars

\* A query call a step at a time, beside deletions of documents.  The
\* query asks for no reranking: the settings start without it.
NextQueryRace ==
    \/ QueryRetrieveChunks(1)
    \/ QueryAssembleContext(1)
    \/ TasksReturn
    \/ DeleteDocumentAndChunks
    \/ Respond
InitQueryRace ==
    /\ Init
    /\ ~USE_RERANKING
SpecQueryRace == InitQueryRace /\ [][NextQueryRace]_vars

\* delete_document_and_chunks calls in progress together, each from one
\* await to the next.
NextDeleteRace ==
    \/ \E c \in Calls : DeleteLookup(c)
    \/ \E c \in Calls : DeleteAdvance(c)
    \/ TasksReturn
SpecDeleteRace == Init /\ [][NextDeleteRace]_vars

\* Retrievals with reranking in force.
NextRerank == RetrieveChunksReranked \/ Respond
SpecRerank == Init /\ [][NextRerank]_vars

NextRetrieveDocs == RetrieveDocs \/ Respond
SpecRetrieveDocs == Init /\ [][NextRetrieveDocs]_vars

NextChunkResults == CreateChunkResults \/ Respond
SpecChunkResults == Init /\ [][NextChunkResults]_vars

NextFind == FindAuthorized \/ Respond
SpecFind == Init /\ [][NextFind]_vars

\* Ingestion by callers whose auth object carries the fields the handlers
\* read.
NextIngestAs == IngestTextAs \/ IngestFileAs \/ Respond
SpecIngestAs == Init /\ [][NextIngestAs]_vars

\* The storing part of ingestion on its own.
\* Ingestions with rules, called with the auth object the handlers read.
NextIngestRules == IngestTextRuled \/ IngestFileRuled \/ Respond
SpecIngestRules == Init /\ [][NextIngestRules]_vars

NextPersist == EmbedAndStore \/ Respond
SpecPersist == Init /\ [][NextPersist]_vars

(***************************************************************************)
(* Properties of deletion.                                                 *)
(***************************************************************************)
\* The record of the document id, as a set of at most one record.
RecordOf(coll, id) == {d \in coll : d.external_id = id}

\* The step is a delete_document_and_chunks that found the document
\* visible to the caller with at least one chunk in the index.
DeletePassedPreCheck ==
    /\ last'.op = "delete_document_and_chunks"
    /\ last'.visible
    /\ last'.count > 0

\* The step removed the record of the document and nothing else from the
\* metadata store.
RecordRemoved ==
    /\ RecordOf(collection, last'.id) # {}
    /\ collection' = collection \ RecordOf(collection, last'.id)

\* The step reported success, having removed the record and exactly count
\* chunks of the document.
DeleteSucceeded ==
    /\ last'.outcome = "return" /\ last'.result = "True"
    /\ RecordRemoved
    /\ index' = [index EXCEPT ![last'.id] = @ - last'.count]

\* The step reported failure and left both stores as they were.
DeleteFailedUntouched ==
    /\ last'.result # "True"
    /\ collection' = collection
    /\ index' = index

\* The step reported failure after the record was removed: delete_chunks
\* was called and raised, or answered something other than count.  Only
\* chunks of the document can be gone.
DeleteFailedRecordGone ==
    /\ last'.result # "True"
    /\ RecordRemoved
    /\ "delete_chunks" \in last'.calls
    /\ \A d \in DocIds \ {last'.id} : index'[d] = index[d]
    /\ index'[last'.id] <= index[last'.id]
    /\ \/ last'.outcome # "return"
       \/ last'.deleted_count # last'.count

\* C1 as stated: a delete_document_and_chunks that passed the pre-check
\* either removes the record and exactly count chunks and reports success,
\* or reports failure and leaves both stores exactly as before.
C1_AllOrNothing ==
    [][DeletePassedPreCheck => (DeleteSucceeded \/ DeleteFailedUntouched)]_vars

\* C1 amended: a delete_document_and_chunks that passed the pre-check
\* either removes the record and exactly count chunks and reports success,
\* or reports failure; a failure leaves both stores as before, or leaves
\* the record removed with delete_chunks having raised or answered
\* something other than count.  Chunks are never removed while the record
\* stays.
C1_RecordFirst ==
    [][DeletePassedPreCheck =>
         (DeleteSucceeded \/ DeleteFailedUntouched \/ DeleteFailedRecordGone)]_vars

\* A delete that passed the pre-check and succeeded: record and chunks gone.
C1_Witness ==
    /\ last.op = "delete_document_and_chunks"
    /\ last.visible /\ last.count > 0
    /\ last.result = "True"
    /\ RecordOf(collection, last.id) = {}
    /\ index[last.id] = 0

\* The access level an operation on one document asks for.
RequiredLevel(op) == IF op = "update_document" THEN "writers" ELSE "admins"

\* The document id exists and user does not hold the level op asks for.
LacksLevel(coll, id, user, op) ==
    \E d \in RecordOf(coll, id) : user \notin d.access_control[RequiredLevel(op)]

\* C7: an update_document or delete_document by a caller without the
\* level answers False and leaves the record as it is, and a
\* delete_document_and_chunks by such a caller removes neither the record
\* nor any chunk.
C7_DeniedAnswersFalse ==
    [][(/\ last'.op \in {"update_document", "delete_document",
                         "delete_document_and_chunks"}
        /\ LacksLevel(collection, last'.id, last'.user, last'.op))
       => /\ collection' = collection
          /\ index' = index
          /\ last'.op # "delete_document_and_chunks"
               => (last'.outcome = "return" /\ last'.result = "False")]_vars

\* What DELETE /documents/{id} answers the caller in the current stores
\* when no adapter fails.
DeleteResponse(external_id, auth) ==
    api_delete_document(
        delete_document_and_chunks(collection, index, external_id, auth,
                                   [fault |-> "none", nDeleted |-> index[external_id],
                                    asBool |-> FALSE]))

\* C8: the answer for a document id that does not exist differs from the
\* answer for an existing document on which the caller lacks admin.
C8_NotFoundDistinct ==
    \A auth \in AuthContext, absent, denied \in DocIds :
        (/\ RecordOf(collection, absent) = {}
         /\ LacksLevel(collection, denied, auth.user_id, "delete_document"))
        => DeleteResponse(absent, auth) # DeleteResponse(denied, auth)

\* C9: when the index holds no chunk of a document the caller can see,
\* delete_document_and_chunks answers False, calls neither delete_document
\* nor delete_chunks, and the record stays.
C9_ZeroChunksAborts ==
    (/\ last.op = "delete_document_and_chunks"
     /\ last.visible
     /\ last.count = 0)
    => /\ last.outcome = "return" /\ last.result = "False"
       /\ "delete_document" \notin last.calls
       /\ "delete_chunks" \notin last.calls
       /\ RecordOf(collection, last.id) # {}

\* A delete of a visible document with no chunk in the index.
C9_Witness ==
    /\ last.op = "delete_document_and_chunks"
    /\ last.visible
    /\ last.count = 0

\* C10: when delete_document answers False or raises, the operation does
\* not report success, delete_chunks is not called and the index is as it
\* was.
C10_RecordDeleteFailedKeepsChunks ==
    [][(/\ last'.op = "delete_document_and_chunks"
        /\ last'.document_deleted \in {"False", "raised"})
       => /\ last'.result # "True"
          /\ "delete_chunks" \notin last'.calls
          /\ index' = index]_vars

\* A delete whose delete_document answered False for a document with chunks.
C10_Witness ==
    /\ last.op = "delete_document_and_chunks"
    /\ last.document_deleted = "False"
    /\ last.count > 0
    /\ index[last.id] = last.count

(***************************************************************************)
(* Properties of retrieval.                                                *)
(***************************************************************************)
\* C3: retrieve_chunks returns at most k results, for every k >= 1,
\* whether reranking is asked for or not and whether a reranker is
\* configured or not.
C3_AtMostK ==
    last.op = "retrieve_chunks" => Len(last.results) <= last.k

\* C4: every chunk retrieve_chunks returns belongs to a document of the
\* authorized-and-filtered id set the same call computed.
C4_ResultsWithinDocIds ==
    last.op = "retrieve_chunks"
    => \A i \in 1..Len(last.results) : last.results[i].document_id \in last.doc_ids

\* A retrieval that returned a chunk while the index held chunks of a
\* document outside the id set of the call.
C4_Witness ==
    /\ last.op = "retrieve_chunks"
    /\ last.results # <<>>
    /\ \E d \in DocIds \ last.doc_ids : index[d] > 0

\* C5: when the authorized-and-filtered id set of a retrieve_chunks call
\* is empty, the call returns an empty list, raises nothing and calls
\* neither the vector index nor the reranker.
C5_EmptySetShortCircuits ==
    (last.op = "retrieve_chunks" /\ last.found = "empty")
    => /\ last.outcome = "return"
       /\ last.results = <<>>
       /\ "query_similar" \notin last.calls
       /\ "rerank" \notin last.calls

\* A retrieval with an empty id set over an index that holds chunks, with
\* reranking asked for.
C5_Witness ==
    /\ last.op = "retrieve_chunks"
    /\ last.found = "empty"
    /\ last.use_reranking = "True"
    /\ \E d \in DocIds : index[d] > 0

(***************************************************************************)
(* Properties of ingestion.                                                *)
(***************************************************************************)
\* C2: after the storing part of an ingestion has returned for a document,
\* the number of chunks the index counts for its external_id is the
\* length of the chunk_ids of its record in the metadata store, which are
\* the chunk_ids of the document returned.
C2_IndexCountIsChunkIds ==
    (last.op = "embed_and_store" /\ last.outcome = "return")
    => \E d \in RecordOf(collection, last.id) :
          /\ count_number_of_chunks(index, last.id) = Len(d.chunk_ids)
          /\ d.chunk_ids = last.results

\* An ingestion stored a document of two chunks.
C2_Witness ==
    /\ last.op = "embed_and_store"
    /\ last.outcome = "return"
    /\ Len(last.results) = 2
    /\ index[last.id] = 2

\* The caller's AuthContext carries the write permission.
HasWrite(auth) == HasAttr(auth, "permissions") /\ "write" \in auth.permissions

\* C6: an ingest_text or ingest_file by a caller whose AuthContext lacks
\* the write permission raises PermissionError before any adapter call
\* and leaves both stores as they were.
C6_NoWriteRaisesPermissionError ==
    [][(/\ last'.op \in {"ingest_text", "ingest_file"}
        /\ ~HasWrite([user_id |-> last'.user]))
       => /\ last'.outcome = "PermissionError"
          /\ last'.calls = {}
          /\ collection' = collection
          /\ index' = index]_vars

\* ------------------------------------------------------------------
\* Deletion: what a reported success means
\* ------------------------------------------------------------------

\* The step took exactly the chunks the pre-check counted out of the index
\* of the document, and no chunk of another document.
CountChunksRemoved ==
    index' = [index EXCEPT ![last'.id] = @ - last'.count]

\* C11: a delete_document_and_chunks that passed the pre-check and came
\* back with an answer reports success if and only if the metadata record
\* was deleted and the number of chunks actually deleted equals the count
\* of the pre-check.
C11_SuccessIffCountsMatch ==
    [][(DeletePassedPreCheck /\ last'.outcome = "return") =>
         (last'.result = "True" <=> (RecordRemoved /\ CountChunksRemoved))]_vars

\* ------------------------------------------------------------------
\* Ingestion: failures on the way
\* ------------------------------------------------------------------

\* The step is an ingestion.
Ingested == last'.op \in {"ingest_text", "ingest_file"}

\* The number of chunks the ingestion of the step went on with.
ChunksMade ==
    IF last'.op = "ingest_file" THEN FinalChunks(last'.env) ELSE last'.env.nChunks

\* The number of chunk objects the ingestion of the step made of them.
ChunkObjectsMade ==
    IF last'.env.nEmbeddings < ChunksMade THEN last'.env.nEmbeddings ELSE ChunksMade

\* The step left the metadata store, the vector index and the blob store
\* as they were.
NothingWritten ==
    /\ collection' = collection
    /\ index' = index
    /\ storage' = storage

\* The step is an ingest_file whose upload of the original was attempted
\* and failed.
UploadFailed ==
    /\ last'.op = "ingest_file"
    /\ last'.env.fault = "upload_from_base64"
    /\ "upload_from_base64" \in last'.calls

\* C12: an ingest_file whose upload of the original to the blob store
\* fails does not return a document, stores no chunk in the vector index
\* and no record in the metadata store, and has attempted the upload
\* exactly once.
C12_UploadFailureStoresNothing ==
    [][UploadFailed =>
         /\ last'.outcome # "return"
         /\ last'.results = <<>>
         /\ index' = index
         /\ collection' = collection
         /\ last'.uploads = 1]_vars

\* An ingest_file that reached the upload and met its failure.
C12_Witness ==
    /\ last.op = "ingest_file"
    /\ last.env.fault = "upload_from_base64"
    /\ "upload_from_base64" \in last.calls
    /\ last.outcome = "StorageError"

\* The step is an ingestion whose store_document was called and failed.
StoreDocumentFailed ==
    /\ Ingested
    /\ last'.env.fault = "store_document"
    /\ "store_document" \in last'.calls

\* C13: when store_document fails after the chunks were stored, the
\* ingestion does not return a document, the metadata store is as it was
\* with no record of the id, and the chunks stored stay in the vector
\* index under the document id.
C13_RecordFailureLeavesOrphans ==
    [][StoreDocumentFailed =>
         /\ last'.outcome # "return"
         /\ last'.results = <<>>
         /\ collection' = collection
         /\ RecordOf(collection', last'.id) = {}
         /\ index' = [index EXCEPT ![last'.id] = @ + ChunkObjectsMade]]_vars

\* An ingestion whose store_document failed with chunks of the document
\* in the index and no record of it.
C13_Witness ==
    /\ last.op \in {"ingest_text", "ingest_file"}
    /\ last.env.fault = "store_document"
    /\ "store_document" \in last.calls
    /\ last.outcome = "Exception"
    /\ index[last.id] > 0
    /\ RecordOf(collection, last.id) = {}

\* The step is an ingestion whose parser or splitter was called and made
\* no chunk: split_text in ingest_text, parse_file in ingest_file, or
\* split_text on the text the rules rewrote in ingest_file.
EmptyChunkList ==
    \/ /\ last'.op = "ingest_text"
       /\ "split_text" \in last'.calls
       /\ last'.env.nChunks = 0
    \/ /\ last'.op = "ingest_file"
       /\ "parse_file" \in last'.calls
       /\ last'.env.fault # "parse_file"
       /\ last'.env.nChunks = 0
    \/ /\ last'.op = "ingest_file"
       /\ "split_text" \in last'.calls
       /\ Rewrites(last'.env)
       /\ last'.env.nRechunked = 0

\* C14: an ingestion whose parsing or chunking yields no chunk fails with
\* ValueError and has written nothing to the blob store, the vector index
\* or the metadata store.
C14_EmptyChunksWriteNothing ==
    [][EmptyChunkList => (last'.outcome = "ValueError" /\ NothingWritten)]_vars

\* An ingest_file whose rules rewrote the text of a parsed file into one
\* that splits into no chunk.
C14_Witness ==
    /\ last.op = "ingest_file"
    /\ "split_text" \in last.calls
    /\ last.env.nChunks > 0
    /\ Rewrites(last.env)
    /\ last.env.nRechunked = 0
    /\ last.outcome = "ValueError"

\* The step is an ingestion whose embedding model answered a number of
\* vectors other than the number of chunks.
EmbeddingsMismatch ==
    /\ Ingested
    /\ "embed_for_ingestion" \in last'.calls
    /\ last'.env.fault # "embed_for_ingestion"
    /\ last'.env.nEmbeddings # ChunksMade

\* C15: an ingestion whose embedding model answers a number of vectors
\* other than the number of chunks fails and persists nothing.
C15_MismatchPersistsNothing ==
    [][EmbeddingsMismatch => (last'.outcome # "return" /\ NothingWritten)]_vars

\* ------------------------------------------------------------------
\* Authorized and filtered document ids
\* ------------------------------------------------------------------

\* The ownership predicate: the document is the caller's.
OwnedBy(d, user) == d.owner_id = user

\* The metadata filter: the document's metadata holds, for every key of
\* the filter, the value the filter names.
SatisfiesFilter(d, filters) == \A k \in DOMAIN filters : MetaField(d, k) = filters[k]

\* C16: find_authorized_and_filtered_documents answers only ids of
\* documents that are the caller's and satisfy the metadata filter,
\* whatever keys the filter names.
C16_OwnedAndFiltered ==
    (last.op = "find_authorized_and_filtered_documents" /\ last.outcome = "return")
    => \A id \in last.doc_ids :
         \E d \in collection : /\ d.external_id = id
                                /\ OwnedBy(d, last.user)
                                /\ SatisfiesFilter(d, last.filters)

\* A call with a filter that names external_id, a field of every record,
\* that answered an id while the store holds a document of another user.
C16_Witness ==
    /\ last.op = "find_authorized_and_filtered_documents"
    /\ last.outcome = "return"
    /\ "external_id" \in DOMAIN last.filters
    /\ last.doc_ids # {}
    /\ \E d \in collection : ~OwnedBy(d, last.user)

\* ------------------------------------------------------------------
\* Retrieval: chunks without a parent document
\* ------------------------------------------------------------------

\* The caller can fetch the document id: the store holds a record of it
\* that is the caller's.
Fetchable(id, user) == \E d \in collection : d.external_id = id /\ OwnedBy(d, user)

\* The elements of a sequence.
Range(seq) == {seq[i] : i \in 1..Len(seq)}

\* The place of chunk c among the candidates (they are distinct).
PlaceOf(c) == CHOOSE i \in 1..Len(last.candidates) : last.candidates[i] = c

\* C17: the chunk results of a list of candidate chunks, when no lookup
\* meets an I/O error, are made without raising, hold exactly the
\* candidates whose parent document the caller can fetch, and hold them in
\* the order of the candidates.
C17_MissingParentDropped ==
    (last.op = "create_chunk_results" /\ last.env.fault = "none")
    => /\ last.outcome = "return"
       /\ Range(last.results)
            = {c \in Range(last.candidates) : Fetchable(c.document_id, last.user)}
       /\ \A i, j \in 1..Len(last.results) :
            i < j => PlaceOf(last.results[i]) < PlaceOf(last.results[j])

\* Chunk results of two candidates of which the first has no parent
\* document the caller can fetch: the other one is answered.
C17_Witness ==
    /\ last.op = "create_chunk_results"
    /\ last.outcome = "return"
    /\ Len(last.candidates) = 2
    /\ Len(last.results) = 1
    /\ ~Fetchable(last.candidates[1].document_id, last.user)

\* ------------------------------------------------------------------
\* Retrieval: document results
\* ------------------------------------------------------------------

\* The scores of the chunks of document id among the chunks retrieve_chunks
\* returned to the retrieve_docs of last.
ScoresOf(id) == {c.score : c \in {x \in Range(last.results) : x.document_id = id}}

\* C18: retrieve_docs returns at most one result per document id, each for
\* a document of the chunks retrieve_chunks returned, with the greatest
\* score of that document's returned chunks.
C18_OnePerDocumentWithMaxScore ==
    (last.op = "retrieve_docs" /\ last.outcome = "return")
    => /\ \A i, j \in 1..Len(last.documents) :
            i # j => last.documents[i].document_id # last.documents[j].document_id
       /\ \A i \in 1..Len(last.documents) :
            /\ last.documents[i].score \in ScoresOf(last.documents[i].document_id)
            /\ \A x \in ScoresOf(last.documents[i].document_id) :
                 x <= last.documents[i].score

\* A retrieve_docs over two returned chunks of one document, the second
\* with the greater score, that answered one result.
C18_Witness ==
    /\ last.op = "retrieve_docs"
    /\ last.outcome = "return"
    /\ Len(last.results) = 2
    /\ last.results[1].document_id = last.results[2].document_id
    /\ last.results[1].score < last.results[2].score
    /\ Len(last.documents) = 1

\* ------------------------------------------------------------------
\* Caches
\* ------------------------------------------------------------------

\* The documents a create_cache request resolves to for its caller: those
\* of the caller that satisfy the filter, and those listed that the caller
\* can fetch.
ResolvedDocs ==
    {d.external_id : d \in {x \in collection :
                               OwnedBy(x, last'.user) /\ SatisfiesFilter(x, last'.filters)}}
      \cup {id \in Range(last'.listed) : \E d \in collection :
                                            d.external_id = id /\ OwnedBy(d, last'.user)}

\* C19: a create_cache request that resolves to no document, and whose
\* lookups meet no error, fails with the validation error HTTP 400 and
\* leaves the descriptors and the blob store as they were; one that
\* resolves to documents hands the cache each document id exactly once.
C19_EmptyUnionRejected ==
    [][(last'.op = "api_create_cache"
          /\ last'.env.fault \notin {"get_documents", "get_document"})
       => /\ ResolvedDocs = {}
               => (last'.outcome = "HTTP 400" /\ caches' = caches /\ storage' = storage)
          /\ (ResolvedDocs # {} /\ "create_cache" \in last'.calls)
               => /\ Range(last'.handed) = ResolvedDocs
                  /\ Len(last'.handed) = Cardinality(ResolvedDocs)]_vars

\* The descriptor of the cache name and the state blob at the place the
\* descriptor names are both held: what a successful create_cache leaves.
Created(name) ==
    \E c \in caches :
       /\ c.name = name
       /\ \E b \in storage : /\ b.bucket = c.metadata.storage_info.bucket
                             /\ b.key = c.metadata.storage_info.key

\* C20: a load_cache of a name a create_cache succeeded for, meeting no
\* adapter error, succeeds: it downloads from the (bucket, key) the state
\* was uploaded to, and registers under the name an active cache with
\* those bytes and the documents of the descriptor.
C20_LoadAfterCreate ==
    [][(last'.op = "load_cache" /\ last'.env.fault = "none" /\ Created(last'.id))
       => \E c \in caches : \E b \in storage :
            /\ c.name = last'.id
            /\ last'.result = "success"
            /\ last'.location = <<c.metadata.storage_info.bucket,
                                  c.metadata.storage_info.key>>
            /\ <<b.bucket, b.key>> = last'.location
            /\ \E a \in active_caches' : /\ a.name = c.name
                                          /\ a.docs = Range(c.metadata.docs)
                                          /\ a.state = b.bytes]_vars

\* C21: a load_cache that does not succeed answers with a value its callers
\* evaluate as failure (bool(answer) is false), leaves active_caches as it
\* was, and answers False when no descriptor is found.
C21_FailedLoadCountsAsFailure ==
    [][(/\ last'.op = "load_cache"
        /\ last'.env.fault # "get_cache_metadata"
        /\ last'.result # "success")
       => /\ ~Truthy(last'.result)
          /\ active_caches' = active_caches
          /\ (\A c \in caches : c.name # last'.id) => last'.result = "False"]_vars

\* An answer that reports a failure to the caller in a structured way: a
\* returned failure value or an HTTP error the handler raises on purpose.
StructuredFailure(call) ==
    \/ call.outcome = "return" /\ call.result \in {"failure", "False"}
    \/ call.outcome \in {"HTTP 400", "HTTP 404"}

\* The load of the name fails: no descriptor is found, or the state is not
\* downloaded or not made into a cache.
LoadFails(name, fault) ==
    load_cache(caches, storage, active_caches, name, fault).result # "success"

\* C22: update_cache of a name that is not active and whose load fails
\* answers not-found (HTTP 404) or a structured failure, raises no other
\* error, and leaves active_caches as it was.
C22_UpdateOfUnloadableIsNotFound ==
    [][(/\ last'.op = "api_update_cache"
        /\ ActiveNamed(active_caches, last'.id) = {}
        /\ last'.env.fault # "get_cache_metadata"
        /\ LoadFails(last'.id, last'.env.fault))
       => (StructuredFailure(last') /\ active_caches' = active_caches)]_vars

\* C23: query_cache and add_docs_to_cache of a name that is not in
\* active_caches answer a structured failure, never a completion or a
\* success, do not load the cache and leave active_caches as it was.
C23_InactiveCacheIsStructuredFailure ==
    [][(/\ last'.op \in {"api_query_cache", "api_add_docs_to_cache"}
        /\ ActiveNamed(active_caches, last'.id) = {})
       => /\ StructuredFailure(last')
          /\ last'.result \notin {"completion", "True", "success"}
          /\ "load_cache" \notin last'.calls
          /\ active_caches' = active_caches]_vars

\* The documents the caller's listing answers for the filter of the cache,
\* and those of a list of ids the caller can fetch.
ListedFor(user, filters) ==
    {d.external_id : d \in {x \in collection :
                               OwnedBy(x, user) /\ SatisfiesFilter(x, filters)}}
FetchableBy(user, ids) ==
    {id \in ids : \E d \in collection : d.external_id = id /\ OwnedBy(d, user)}

\* C24: update_cache and add_docs_to_cache on an active cache, meeting no
\* adapter error, hand to the cache exactly the candidate documents (those
\* of the cache's filter, those listed that resolve) whose ids the cache
\* does not record, each once and never a None, and the cache then records
\* those beside the ones it recorded before.
C24_OnlyNewDocumentsAdded ==
    [][(/\ last'.op \in {"api_update_cache", "api_add_docs_to_cache"}
        /\ last'.env.fault = "none"
        /\ ActiveNamed(active_caches, last'.id) # {})
       => \E c \in ActiveNamed(active_caches, last'.id) :
            LET candidates == IF last'.op = "api_update_cache"
                              THEN ListedFor(last'.user, c.filters)
                              ELSE FetchableBy(last'.user, Range(last'.listed))
            IN  /\ Range(last'.handed) = candidates \ c.docs
                /\ Len(last'.handed) = Cardinality(candidates \ c.docs)
                /\ \E a \in ActiveNamed(active_caches', last'.id) :
                       /\ a.docs = c.docs \cup (candidates \ c.docs)
                       /\ c.state \subseteq a.state]_vars

\* C25: a listing of documents that meets a store error is answered to the
\* caller of create_cache or update_cache as a failure: not as the "no
\* documents" validation error, not as a success, and nothing is stored
\* or added.
C25_ListingErrorIsSurfaced ==
    [][(/\ last'.op \in {"api_create_cache", "api_update_cache"}
        /\ last'.env.fault = "get_documents"
        /\ "get_documents" \in last'.calls)
       => /\ last'.outcome \notin {"return", "HTTP 400"}
          /\ caches' = caches
          /\ storage' = storage
          /\ active_caches' = active_caches]_vars

\* ------------------------------------------------------------------
\* Rules
\* ------------------------------------------------------------------

\* The metadata the caller of the step sent, an empty dictionary when none.
CallerSent == IF last'.metadata = {} THEN <<>> ELSE CHOOSE m \in last'.metadata : TRUE

\* The step is an ingestion with rules by a caller with write permission,
\* whose adapters all answer and whose text gives chunks.
RuledIngestion ==
    /\ Ingested
    /\ last'.outcome # "PermissionError"
    /\ HasRules(last'.env)
    /\ last'.env.fault = "none"
    /\ last'.env.nChunks > 0
    /\ ChunksMade > 0

\* C26: an ingestion with rules succeeds, with or without metadata of the
\* caller, and the document it stores holds for every key the value the
\* caller sent, and the value the rules extracted for the keys the caller
\* did not send.
C26_CallerMetadataWins ==
    [][RuledIngestion =>
         /\ last'.outcome = "return"
         /\ \E d \in collection' :
               /\ d.external_id = last'.id
               /\ \A key \in DOMAIN CallerSent \cup DOMAIN last'.env.rule_metadata :
                     /\ key \in DOMAIN d.metadata
                     /\ d.metadata[key] =
                          DictUpdate(last'.env.rule_metadata, CallerSent)[key]]_vars

\* ------------------------------------------------------------------
\* Order of the two writes of an ingestion
\* ------------------------------------------------------------------

\* C27: an ingestion leaves a record of its document in the metadata store
\* only after the vector index has stored its chunks: whenever the record
\* is there, store_embeddings was called and answered, the index holds
\* the chunk objects made, and the record carries exactly the chunk ids
\* the index answered, in order.
C27_ChunksBeforeRecord ==
    [][(Ingested /\ RecordOf(collection', last'.id) # {}
                 /\ RecordOf(collection, last'.id) = {})
       => /\ "store_embeddings" \in last'.calls
          /\ last'.env.fault # "store_embeddings"
          /\ index' = [index EXCEPT ![last'.id] = @ + ChunkObjectsMade]
          /\ \A d \in RecordOf(collection', last'.id) :
                /\ d.chunk_ids = ChunkIdsOf(last'.id, ChunkObjectsMade)
                /\ d.chunk_ids = last'.results]_vars

\* An ingestion stored the record of a document after two chunks of it.
C27_Witness ==
    /\ last.op \in {"ingest_text", "ingest_file"}
    /\ last.outcome = "return"
    /\ "store_embeddings" \in last.calls
    /\ \E d \in RecordOf(collection, last.id) : Len(d.chunk_ids) = 2
    /\ index[last.id] >= 2

\* ------------------------------------------------------------------
\* Retrieval after a deletion
\* ------------------------------------------------------------------

\* The documents whose record is gone while the index still holds chunks
\* of them.
RecordGone == {d \in DocIds : RecordOf(collection, d) = {} /\ index[d] > 0}

\* C28: a retrieve_chunks that starts when the record of a document is
\* gone returns no chunk of that document, whatever chunks of it the
\* vector index still holds and ranks.
C28_NoChunkOfDeletedDocument ==
    [][last'.op = "retrieve_chunks"
       => \A i \in 1..Len(last'.results) :
            last'.results[i].document_id \notin RecordGone]_vars

\* A retrieval that returned a chunk while the index ranked first a chunk
\* of a document whose record is gone.
C28_Witness ==
    /\ last.op = "retrieve_chunks"
    /\ last.results # <<>>
    /\ last.candidates # <<>>
    /\ last.candidates[1][1] \in RecordGone

\* ------------------------------------------------------------------
\* Retrieval: reranking
\* ------------------------------------------------------------------

\* A choice of the n highest-scoring chunks of the set S: n of them, none
\* scoring less than a chunk left out.
TopOf(S, n) ==
    {T \in SUBSET S : /\ Cardinality(T) = n
                       /\ \A c \in T : \A x \in S \ T : c.score >= x.score}

\* The smaller of two numbers.
Min2(a, b) == IF a < b THEN a ELSE b

\* C29: when the reranker ran, the chunks retrieve_chunks returns are in
\* non-increasing order of the reranked score, and they are the min(k,
\* number of candidates) highest-scoring chunks of the reranked set, less
\* those whose parent document the caller cannot fetch.
C29_RerankedTopK ==
    (last.op = "retrieve_chunks" /\ "rerank" \in last.calls)
    => /\ last.outcome = "return"
       /\ \A i, j \in 1..Len(last.results) :
            i < j => last.results[i].score >= last.results[j].score
       /\ \E T \in TopOf(Range(last.candidates),
                          Min2(last.k, Len(last.candidates))) :
            Range(last.results) = {c \in T : Fetchable(c.document_id, last.user)}
       /\ Len(last.results) = Cardinality(Range(last.results))

\* A reranked retrieval of k = 1 over two candidates of which the reranker
\* scored the second higher: the second is the one returned.
C29_Witness ==
    /\ last.op = "retrieve_chunks"
    /\ "rerank" \in last.calls
    /\ last.k = 1
    /\ Len(last.candidates) = 2
    /\ last.candidates[1].score < last.candidates[2].score
    /\ last.results = <<last.candidates[2]>>

\* ------------------------------------------------------------------
\* Ingestion: rewritten text
\* ------------------------------------------------------------------

\* The step is an ingestion whose rules answered a rewritten text.
RuleRewroteText == Ingested /\ modified_text(last'.env) # "None"

\* The step added to the vector store the chunk objects the ingestion made.
ChunksPersisted ==
    /\ last'.stored # <<>>
    /\ index' = [index EXCEPT ![last'.id] = @ + Len(last'.stored)]

\* C30: when a rule rewrites the text, the chunks the ingestion embeds and
\* adds to the vector store are parts of the rewritten text, none is a
\* chunk made before the rewrite, and the document it stores holds the
\* rewritten text as its system_metadata content.
C30_RewrittenTextIngested ==
    [][RuleRewroteText
       => /\ ChunksPersisted
             => \A i \in 1..Len(last'.stored) :
                  last'.stored[i].content.text = modified_text(last'.env)
          /\ RecordOf(collection', last'.id) # RecordOf(collection, last'.id)
             => last'.content = modified_text(last'.env)]_vars

\* ------------------------------------------------------------------
\* Caches: create_cache calls in progress together
\* ------------------------------------------------------------------

\* The bytes the blob store holds at the place the descriptor of the name
\* names, as a set of at most one.
StateStoredFor(descriptors, blobs, name) ==
    {b.bytes : b \in {x \in blobs : \E d \in descriptors :
                          /\ d.name = name
                          /\ x.bucket = d.metadata.storage_info.bucket
                          /\ x.key = d.metadata.storage_info.key}}

\* The docs the descriptor of the name records, as a set of at most one.
DocsRecordedFor(descriptors, name) ==
    {Range(d.metadata.docs) : d \in {x \in descriptors : x.name = name}}

\* C31: nothing serializes the two writes of create_cache.  The upload of
\* a call stores the state of that call's docs and leaves the descriptor
\* as it is, also when the other call has replaced the descriptor since
\* this call wrote it; the descriptor write of a call replaces the
\* descriptor and leaves the blob as it is, also when the other call is
\* between its two writes.
C31_WritesNotSerialized ==
    [][\A c \in Calls :
         /\ (tasks[c].pc = "upload" /\ tasks'[c].pc = "done"
                                    /\ tasks'[c].result = "success")
            => /\ caches' = caches
               /\ StateStoredFor(caches', storage', tasks[c].name)
                    = {saveable_state(tasks[c].docs)}
         /\ (tasks[c] = NoTask /\ tasks'[c].op = "create_cache"
                               /\ tasks'[c].pc = "upload")
            => /\ storage' = storage
               /\ DocsRecordedFor(caches', tasks'[c].name)
                    = {Range(tasks'[c].docs)}]_vars

\* Both calls created the same name with success, and the descriptor
\* records the docs of one while the blob is the state of the other.
C31_Witness ==
    /\ \A c \in Calls : /\ tasks[c].op = "create_cache"
                         /\ tasks[c].pc = "done"
                         /\ tasks[c].result = "success"
    /\ tasks[1].name = tasks[2].name
    /\ DocsRecordedFor(caches, tasks[1].name) = {Range(tasks[1].docs)}
    /\ StateStoredFor(caches, storage, tasks[1].name) = {saveable_state(tasks[2].docs)}
    /\ Range(tasks[1].docs) # saveable_state(tasks[2].docs)

\* ------------------------------------------------------------------
\* Caches: the lifecycle of a name
\* ------------------------------------------------------------------

\* The names of the caches in active_caches.
ActiveNames(active) == {c.name : c \in active}

\* The names that have a persisted descriptor.
PersistedNames(descriptors) == {c.name : c \in descriptors}

\* The step ran load_cache(name), by itself or inside update_cache, and
\* load_cache put a cache into active_caches.
LoadedBy(name) ==
    /\ last'.id = name
    /\ \/ last'.op = "load_cache" /\ last'.result = "success"
       \/ last'.op = "api_update_cache" /\ "load_cache" \in last'.calls
                                        /\ last'.outcome # "HTTP 404"

\* C32: a name becomes active only in a step in which load_cache found its
\* persisted descriptor and loaded it; create_cache leaves active_caches
\* as it is; query_cache answers only for an active name; and every active
\* name has a persisted descriptor.
C32_ActiveOnlyThroughLoad ==
    [][/\ \A name \in ActiveNames(active_caches') \ ActiveNames(active_caches) :
            /\ LoadedBy(name)
            /\ name \in PersistedNames(caches)
       /\ last'.op = "api_create_cache" => active_caches' = active_caches
       /\ (last'.op = "api_query_cache" /\ last'.outcome = "return")
            => last'.id \in ActiveNames(active_caches)
       /\ ActiveNames(active_caches') \subseteq PersistedNames(caches')]_vars

\* A load_cache of a created name has made the name active.
C32_Witness ==
    /\ last.op = "load_cache"
    /\ last.result = "success"
    /\ last.id \in ActiveNames(active_caches)
    /\ Created(last.id)

\* ------------------------------------------------------------------
\* Caches: descriptor and state after create_cache
\* ------------------------------------------------------------------

\* C33: when create_cache has finished, with success, with the failure
\* result or with an exception, a descriptor of the name is persisted only
\* if the blob store holds a state at the place the descriptor names.
C33_DescriptorOnlyWithState ==
    [][last'.op = "api_create_cache"
       => (last'.id \in PersistedNames(caches')
             => StateStoredFor(caches', storage', last'.id) # {})]_vars

\* ------------------------------------------------------------------
\* query: chunks and the document-result map
\* ------------------------------------------------------------------

\* C34: in query, every chunk retrieve_chunks returned has an entry in the
\* document-result map built afterwards, and the context assembly ends
\* without an error, also when a delete_document_and_chunks removed the
\* parent document between the two lookups.
C34_EveryChunkHasDocumentResult ==
    [][\A c \in Calls :
         (tasks[c].op = "query" /\ tasks[c].pc = "documents" /\ tasks'[c].pc = "done")
         => /\ \A i \in 1..Len(tasks'[c].chunks) :
                 tasks'[c].chunks[i].document_id \in tasks'[c].documents
            /\ tasks'[c].outcome = "return"]_vars

\* ------------------------------------------------------------------
\* Deletion: two calls on one document
\* ------------------------------------------------------------------

\* Both calls are deletions of the same document by the same caller that
\* have ended, and one of them passed the pre-check: it found the document
\* as one the caller holds (its owner, and so its admin) with at least one
\* chunk.
BothDeletesEnded ==
    /\ \A c \in Calls : /\ tasks[c].op = "delete_document_and_chunks"
                         /\ tasks[c].pc = "done"
    /\ tasks[1].id = tasks[2].id
    /\ tasks[1].auth = tasks[2].auth
    /\ \E c \in Calls : tasks[c].count > 0

\* C35: when two delete_document_and_chunks calls on one document by an
\* admin have both ended, however their steps interleaved, at most one of
\* them reported success, and the metadata record and all the chunks of
\* the document are gone.
C35_ConcurrentDeletesRemoveAll ==
    BothDeletesEnded
    => /\ \E c \in Calls : tasks[c].result # "True"
       /\ RecordOf(collection, tasks[1].id) = {}
       /\ index[tasks[1].id] = 0

\* ------------------------------------------------------------------
\* Ownership: read your writes
\* ------------------------------------------------------------------

\* The AuthContext of the identity u, as the metadata store reads it.
AuthOf(u) == [user_id |-> u]

\* The metadata store, holding coll, takes the document id for one of u:
\* the id is among u's authorized ids and get_document finds it for u.
VisibleTo(coll, id, u) ==
    /\ id \in db_find_authorized_and_filtered_documents(coll, AuthOf(u), <<>>, FALSE).val
    /\ db_get_document(coll, id, AuthOf(u), FALSE).val # {}

\* C36: after a caller has ingested a document with success, the document
\* id is in the caller's authorized id set, get_document answers it to the
\* caller and the caller can delete the record; for every other identity
\* the id is not in the authorized set and get_document answers nothing.
C36_ReadYourWrites ==
    [][(Ingested /\ last'.outcome = "return")
       => /\ VisibleTo(collection', last'.id, last'.user)
          /\ db_delete_document(collection', last'.id, AuthOf(last'.user), FALSE).exc = NoExc
          /\ db_delete_document(collection', last'.id, AuthOf(last'.user), FALSE).val
          /\ \A u \in Users \ {last'.user} :
                /\ last'.id \notin db_find_authorized_and_filtered_documents(
                                       collection', AuthOf(u), <<>>, FALSE).val
                /\ db_get_document(collection', last'.id, AuthOf(u), FALSE).val = {}]_vars

\* ------------------------------------------------------------------
\* Caches: what the handlers of an active cache change
\* ------------------------------------------------------------------

\* C37: update_cache, add_docs_to_cache and query_cache leave the persisted
\* descriptors and the blob store as they are, and a load_cache that
\* succeeds puts under the name an active cache whose document set is the
\* one the descriptor records, whatever the active cache held before.
C37_OnlyActiveObjectChanges ==
    [][/\ last'.op \in {"api_update_cache", "api_add_docs_to_cache", "api_query_cache"}
          => /\ caches' = caches
             /\ storage' = storage
       /\ (last'.op = "load_cache" /\ last'.result = "success")
          => /\ ActiveNamed(active_caches', last'.id) # {}
             /\ \A a \in ActiveNamed(active_caches', last'.id) :
                  a.docs \in DocsRecordedFor(caches', last'.id)]_vars

\* An update_cache has added documents to the active cache of a created
\* name: the active cache holds documents the descriptor does not record.
C37_Witness ==
    /\ last.op = "api_update_cache"
    /\ last.outcome = "return"
    /\ last.handed # <<>>
    /\ Created(last.id)
    /\ \E a \in ActiveNamed(active_caches, last.id) :
          a.docs \notin DocsRecordedFor(caches, last.id)
====
